---- MODULE Spec2Model ----
(***************************************************************************)
(* Client session of safe_network (sn_client/src/connections/messaging.rs) *)
(* as a state machine: Session::send_cmd with its ack-wait loop,           *)
(* Session::send_query with its receive loop and listener bookkeeping,     *)
(* Session::send_msg, the elder selection and make_contact_with_nodes.     *)
(*                                                                         *)
(* The specifications of the module share its variables:                   *)
(*   SpecCmd     one send_cmd call against the elders of a section;        *)
(*   SpecQuery   one send_query call, and SpecQueryFair, the same with     *)
(*               every step that can be taken being taken eventually;      *)
(*   SpecQueries two send_query calls of the same query run concurrently;  *)
(*   SpecSendMsg one send_msg call with its per-recipient tasks;           *)
(*   SpecElders  one get_cmd_elders or get_query_elders call;              *)
(*   SpecContact one make_contact_with_nodes call.                         *)
(*                                                                         *)
(* Node side (sn_node/src/node/flow_ctrl/dispatcher.rs):                   *)
(*   SpecTimers  the DKG timers of a Dispatcher and its drop, and          *)
(*                   SpecTimersFair, the same with time passing and every  *)
(*                   ready timer being polled;                             *)
(*   SpecSendMsgCmd  process_cmd of a SendMsg next to a CleanupPeerLinks;  *)
(*   SpecFailedSend  process_cmd of two HandlePeerFailedSend;              *)
(*   SpecReplication process_cmd of two EnqueueDataForReplication;         *)
(*   SpecOffline     process_cmd of a ProposeVoteNodesOffline;             *)
(*   SpecPendingQueries process_cmd of two AddToPendingQueries;            *)
(*   SpecDispatcher  two process_cmd calls with Cmds of every modelled     *)
(*                   variant, and SpecDispatcherFair, the same with every  *)
(*                   call being polled until it returns;                   *)
(*   SpecLocks       the calls that look something up under a lock and     *)
(*                   then send: an elder lookup, or a                      *)
(*                   make_contact_with_nodes call, or the SendMsg and       *)
(*                   CleanupPeerLinks handlers.                            *)
(*                                                                         *)
(* Other components, each with a specification of its own:                 *)
(*   SpecChunks   ChunkStorage over its FileStore (sn_node storage);       *)
(*   SpecReplica  the calls of a ReplicaManager (transfers);               *)
(*   SpecQuorum   EldersInfo::is_quorum over sets of proofs (section).     *)
(***************************************************************************)
EXTENDS Integers, Sequences, FiniteSets, TLC

VARIABLES
    \* ---- send_cmd ----
    cmd_pc,           \* position of the send_cmd call
    elders_len,       \* elders.len() as returned by get_cmd_elders
    cmd_ack_wait,     \* self.cmd_ack_wait, in milliseconds
    pending_cmds,     \* Session::pending_cmds: the MsgIds holding a sender
    cmd_chan,         \* the CmdResponse channel of the call (FIFO)
    tasks_done,       \* send_msg: per-recipient tasks that have finished
    successful_sends, \* send_msg: tasks that ended Ok
    last_error,       \* send_msg: the last recorded per-peer error
    acked,            \* elders that have already answered the cmd
    received_ack,     \* send_cmd locals
    received_err,
    attempts,
    cmd_error,        \* `error` bound by the last Ok((src, Some(error))) arm
    cmd_ret,          \* what send_cmd returned
    cmd_consumed,     \* history: the CmdResponses try_recv handed out, in order
    cmd_polls,        \* history: iterations of the ack-wait loop started
    \* ---- send_query ----
    calls,            \* the send_query calls that exist in this run
    q_pc,             \* per call: position
    q_query,          \* per call: the variant of query.variant
    q_elders_len,     \* per call: elders.len()
    pending_queries,  \* Session::pending_queries: op_id -> Seq of msg_id
    q_chan,           \* per call: the QueryResponse channel (FIFO)
    q_answered,       \* per call: contacted elders that have answered
    discarded_responses, \* per call: local of send_query
    error_response,   \* per call: local of send_query
    response,         \* per call: value the receive loop broke with
    q_ret,            \* per call: what send_query returned
    q_consumed,       \* per call: responses taken off the channel, in order
    bg_tasks_done,    \* per call: send_msg tasks of the fan-out that finished
    bg_successful_sends, \* per call: fan-out tasks that ended Ok
    bg_last_error,    \* per call: last_error of the fan-out's send_msg
    bg_send_res,      \* per call: send_res of the task send_msg_in_bg spawned
    \* ---- send_msg ----
    sm_pc,            \* position of the send_msg call
    sm_nodes_len,     \* nodes.len()
    sm_retries,       \* per recipient task: retries
    sm_sent,          \* per recipient task: outcomes of send_and_retry, in order
    sm_panicked,      \* per recipient task: ended without returning (JoinError)
    sm_ret,           \* what send_msg returned
    \* ---- get_cmd_elders, get_query_elders ----
    el_pc,            \* position of the call
    el_network,       \* self.network: the SectionTree, prefix -> elder count
    el_dst,           \* the destination name
    el_call,          \* which of the two functions was called
    el_ret,           \* what it returned
    network_readers,  \* the calls that hold a read guard of self.network
    \* ---- make_contact_with_nodes ----
    mc_pc,            \* position of the call
    mc_nodes_len,     \* nodes.len(): the size of the seed list
    mc_network_sap,   \* whether self.network holds a SAP closest to dst
    knowledge_checks, \* locals of make_contact_with_nodes
    outgoing_msg_rounds,
    last_start_pos,
    tried_every_contact,
    known_sap,        \* known_sap.is_some()
    current_interval, \* backoff.current_interval, in milliseconds
    mc_elapsed,       \* milliseconds since backoff.reset()
    mc_wait,          \* the duration of the sleep the call is in
    mc_expired,       \* history: next_backoff has returned None
    mc_batches,       \* history: the ranges of nodes handed to send_msg_in_bg
    mc_ret,           \* what make_contact_with_nodes returned
    \* ---- Dispatcher: the DKG timers ----
    cancel_value,     \* the bool in the cancel watch channel
    cancel_version,   \* the version of the watch channel
    tm_pc,            \* token -> position of handle_scheduled_dkg_timeout
    tm_seen,          \* token -> the version its cancel_rx has seen
    tm_elapsed,       \* token -> whether its sleep has completed
    tm_ret,           \* token -> what the call returned
    tm_at_drop,       \* token -> where the call stood when the flag was set
    \* ---- Dispatcher::process_cmd ----
    node_lock,        \* the RwLock of self.node: its writer and its readers
    h_pc,             \* handler -> position of its process_cmd call
    h_cmd,            \* handler -> the Cmd it was called with
    h_ret,            \* handler -> what process_cmd returned
    h_peer_msgs,      \* handler -> local peer_msgs of the SendMsg arm
    \* ---- ChunkStorage ----
    cs_files,         \* the chunks the FileStore holds a file of
    cs_capacity,      \* UsedSpace: the most bytes the store may hold
    cs_existed,       \* history: the last store found its address present
    cs_ret,           \* the last call and what it returned
    \* ---- ReplicaManager ----
    rm_initiating,    \* ReplicaInfo::initiating
    rm_store,         \* TransferStore: the events persisted, in order
    rm_replica,       \* Replica: the events it was built from or applied
    rm_calls,         \* history: the number of calls made
    rm_inited,        \* history: an initiate has returned Ok
    rm_ret,           \* the last call and what it returned
    \* ---- EldersInfo ----
    ei_elders,        \* EldersInfo::elders: the names of the elders
    ei_proofs,        \* a ProofSet: the ids that signed
    ei_ret,           \* what is_quorum(proofs) returned, once called
    h_members,        \* handler -> local members of the CleanupPeerLinks arm
    h_i,              \* handler -> items of data_batch already enqueued
    nd_members,       \* node.network_knowledge: the section members
    nd_elders,        \* the elders of its section authority provider
    nd_is_elder,      \* whether this node is an elder
    nd_dst,           \* the names network_knowledge.dst() resolves
    nd_issues,        \* dysfunction tracking: name -> issues logged
    pending_data_to_replicate_to_peers,
    pending_data_queries,
    expired_queries,  \* keys of pending_data_queries whose entry timed out
    comm_sent,        \* history: handler -> the sends handed to comm.send
    comm_cleaned      \* history: handler -> members given to cleanup_peers

cmdVars == <<cmd_pc, elders_len, cmd_ack_wait, pending_cmds, cmd_chan,
             tasks_done, successful_sends, last_error, acked, received_ack,
             received_err, attempts, cmd_error, cmd_ret, cmd_consumed,
             cmd_polls>>

queryVars == <<calls, q_pc, q_query, q_elders_len, pending_queries, q_chan,
               q_answered, discarded_responses, error_response, response,
               q_ret, q_consumed, bg_tasks_done, bg_successful_sends,
               bg_last_error, bg_send_res>>

\* The state of the tasks spawned by send_msg_in_bg.
bgVars == <<bg_tasks_done, bg_successful_sends, bg_last_error, bg_send_res>>

sendVars == <<sm_pc, sm_nodes_len, sm_retries, sm_sent, sm_panicked, sm_ret>>

\* The variables of the operations other than send_cmd and send_query.
elderVars == <<el_pc, el_network, el_dst, el_call, el_ret>>

\* The RwLock of Session::network.
netVars == <<network_readers>>

contactVars == <<mc_pc, mc_nodes_len, mc_network_sap, knowledge_checks,
                 outgoing_msg_rounds, last_start_pos, tried_every_contact,
                 known_sap, current_interval, mc_elapsed, mc_wait,
                 mc_expired, mc_batches, mc_ret>>

\* The DKG timers of a Dispatcher and its cancel channel.
timerVars == <<cancel_value, cancel_version, tm_pc, tm_seen, tm_elapsed,
               tm_ret, tm_at_drop>>

\* The Node behind the RwLock of a Dispatcher.
nodeState == <<nd_members, nd_elders, nd_is_elder, nd_dst, nd_issues,
               pending_data_to_replicate_to_peers, pending_data_queries>>

\* The process_cmd calls of a Dispatcher, its Node and its Comm.
dispVars == <<node_lock, h_pc, h_cmd, h_ret, h_peer_msgs, h_members, h_i,
              nodeState, expired_queries, comm_sent, comm_cleaned>>

\* The variables of the node's Dispatcher.
\* ChunkStorage::file_store and the history of its calls.
chunkVars == <<cs_files, cs_capacity, cs_existed, cs_ret>>

\* The components that are neither the client session nor the Dispatcher.
\* ReplicaManager's fields and the history of its calls.
replicaVars == <<rm_initiating, rm_store, rm_replica, rm_calls, rm_inited,
                 rm_ret>>

\* An EldersInfo, a ProofSet and the is_quorum called on them.
quorumVars == <<ei_elders, ei_proofs, ei_ret>>

auxVars == <<chunkVars, replicaVars, quorumVars>>

nodeVars == <<timerVars, dispVars, auxVars>>

restVars == <<sendVars, elderVars, netVars, contactVars, nodeVars>>

vars == <<cmdVars, queryVars, restVars>>

-----------------------------------------------------------------------------
\* Bounds of the model.

\* Largest elder set a cmd is fanned out to.
MaxElders == 4

\* Largest elder set a query is fanned out to.
MaxQueryElders == 3

\* Largest elder set of each of two concurrent queries.
MaxConcurrentElders == 1

\* Largest list of recipients handed to send_msg.
MaxRecipients == 2

\* Largest elder set of a section authority provider in the SectionTree.
MaxSapElders == 4

\* Largest seed list handed to make_contact_with_nodes.
MaxSeeds == 6

\* The clock of make_contact_with_nodes is not advanced beyond this many
\* milliseconds by delays of the task.
MaxClockMs == 90000

\* The number of DKG timers scheduled on one Dispatcher.
MaxTimers == 3

\* The number of peers a Cmd can name.
MaxPeers == 3

\* The longest data_batch of an EnqueueDataForReplication.
MaxBatch == 2

\* The number of different chunks (a chunk of content v is v bytes long).
MaxChunks == 3

\* The largest capacity, in bytes, a store is created with.
MaxCapacity == 4

\* The number of different ReplicaEvents besides the genesis event.
MaxEvents == 2

\* The number of calls made on a ReplicaManager.
MaxCalls == 2

\* The number of ids that can be elders or sign a proof.
MaxIds == 4

-----------------------------------------------------------------------------
\* Values.

None == "None"

\* DataError kinds carried by CmdError::Data and by query error responses.
ErrorKinds == {"AccessDenied", "NotFound"}

\* CmdResponse = (SocketAddr, Option<CmdError>); the address is only logged.
CmdResponses == {None} \cup ErrorKinds

\* The MsgId of the one send_cmd call.
CmdMsgId == 1

\* Values of self.cmd_ack_wait (ms) the session is built with.
CmdAckWaits == {0, 10050}

Max(a, b) == IF a >= b THEN a ELSE b

Min(a, b) == IF a <= b THEN a ELSE b

-----------------------------------------------------------------------------
\* send_cmd

\* let interval = Duration::from_millis(50);
INTERVAL_MS == 50

\* the literal lower bound of the number of ack-wait attempts
MIN_ACK_WAIT_ATTEMPTS == 200

\* let expected_acks = elders_len * 2 / 3 + 1;
expected_acks_two_thirds(n) == (n * 2) \div 3

expected_acks(n) == (n * 2) \div 3 + 1

\* std::cmp::max(200, self.cmd_ack_wait.as_millis() / interval.as_millis())
expected_cmd_ack_wait_attempts_sum(wait) ==
    MIN_ACK_WAIT_ATTEMPTS + wait \div INTERVAL_MS

expected_cmd_ack_wait_attempts(wait) ==
    Max(MIN_ACK_WAIT_ATTEMPTS, wait \div INTERVAL_MS)

\* if received_ack >= expected_acks
AckArmBreaks(acks, want) == acks >= want

\* if received_err >= expected_acks
ErrArmReturnsLate(errs, want) == errs > want

ErrArmReturns(errs, want) == errs >= want

CmdResult(tag, source, id) == [tag |-> tag, source |-> source, msg_id |-> id]

CmdRunning == CmdResult("Running", None, None)
CmdOk == CmdResult("Ok", None, None)

\* send_msg, tail: failures vs. successes decide the result.
SendMsgFailsOnTie(nodes_len, ok, err) ==
    LET failures == nodes_len - ok
    IN  failures >= ok /\ err /= None

SendMsgFails(nodes_len, ok, err) ==
    LET failures == nodes_len - ok
    IN  failures > ok /\ err /= None

InitCmd ==
    /\ cmd_pc = "insert"
    /\ elders_len \in 1..MaxElders
    /\ cmd_ack_wait \in CmdAckWaits
    /\ pending_cmds = {}
    /\ cmd_chan = <<>>
    /\ tasks_done = 0
    /\ successful_sends = 0
    /\ last_error = None
    /\ acked = 0
    /\ received_ack = 0
    /\ received_err = 0
    /\ attempts = 0
    /\ cmd_error = None
    /\ cmd_ret = CmdRunning
    /\ cmd_consumed = <<>>
    /\ cmd_polls = 0

\* let _ = self.pending_cmds.insert(msg_id, sender);
CmdInsertSkipped ==
    /\ UNCHANGED <<queryVars, restVars>>
    /\ cmd_pc = "insert"
    /\ cmd_pc' = "send_msg"
    /\ UNCHANGED <<elders_len, cmd_ack_wait, pending_cmds, cmd_chan,
                   tasks_done, successful_sends, last_error, acked,
                   received_ack, received_err, attempts, cmd_error, cmd_ret,
                   cmd_consumed, cmd_polls>>

CmdInsert ==
    /\ UNCHANGED <<queryVars, restVars>>
    /\ cmd_pc = "insert"
    /\ pending_cmds' = pending_cmds \cup {CmdMsgId}
    /\ cmd_pc' = "send_msg"
    /\ UNCHANGED <<elders_len, cmd_ack_wait, cmd_chan, tasks_done,
                   successful_sends, last_error, acked, received_ack,
                   received_err, attempts, cmd_error, cmd_ret, cmd_consumed,
                   cmd_polls>>

\* send_msg: one per-recipient task runs to its end (send_with and its
\* retries); ok says whether its last attempt succeeded.
CmdSendTask(ok) ==
    /\ UNCHANGED <<queryVars, restVars>>
    /\ cmd_pc = "send_msg"
    /\ tasks_done < elders_len
    /\ tasks_done' = tasks_done + 1
    /\ successful_sends' = IF ok THEN successful_sends + 1 ELSE successful_sends
    /\ last_error' = IF ok THEN last_error ELSE "QuicP2p"
    /\ UNCHANGED <<cmd_pc, elders_len, cmd_ack_wait, pending_cmds, cmd_chan,
                   acked, received_ack, received_err, attempts, cmd_error,
                   cmd_ret, cmd_consumed, cmd_polls>>

\* send_msg: join_all has returned; `self.send_msg(..).await?` in send_cmd.
CmdSendJoin ==
    /\ UNCHANGED <<queryVars, restVars>>
    /\ cmd_pc = "send_msg"
    /\ tasks_done = elders_len
    /\ IF SendMsgFails(elders_len, successful_sends, last_error)
       THEN /\ cmd_pc' = "done"
            /\ cmd_ret' = CmdResult("SendError", last_error, None)
       ELSE /\ cmd_pc' = "poll"
            /\ cmd_ret' = cmd_ret
    /\ UNCHANGED <<elders_len, cmd_ack_wait, pending_cmds, cmd_chan,
                   tasks_done, successful_sends, last_error, acked,
                   received_ack, received_err, attempts, cmd_error,
                   cmd_consumed, cmd_polls>>

\* An elder that got the cmd answers; the connection listener looks the
\* msg_id up in pending_cmds and puts the CmdResponse on its channel.
CmdRespond(r) ==
    /\ UNCHANGED <<queryVars, restVars>>
    /\ cmd_pc \in {"send_msg", "poll"}
    /\ CmdMsgId \in pending_cmds
    /\ acked < successful_sends
    /\ Len(cmd_chan) < elders_len
    /\ acked' = acked + 1
    /\ cmd_chan' = Append(cmd_chan, r)
    /\ UNCHANGED <<cmd_pc, elders_len, cmd_ack_wait, pending_cmds,
                   tasks_done, successful_sends, last_error, received_ack,
                   received_err, attempts, cmd_error, cmd_ret, cmd_consumed,
                   cmd_polls>>

\* One iteration of the ack-wait loop: try_recv, the match, the attempts
\* check, and the sleep that ends the iteration.
CmdPoll ==
    /\ UNCHANGED <<queryVars, restVars>>
    /\ cmd_pc = "poll"
    /\ LET got == IF cmd_chan = <<>> THEN "Empty" ELSE Head(cmd_chan)
           acks == IF got = None THEN received_ack + 1 ELSE received_ack
           errs == IF got \in ErrorKinds THEN received_err + 1 ELSE received_err
           want == expected_acks(elders_len)
       IN  /\ cmd_chan' = IF cmd_chan = <<>> THEN cmd_chan ELSE Tail(cmd_chan)
           /\ cmd_consumed' = IF cmd_chan = <<>> THEN cmd_consumed
                                               ELSE Append(cmd_consumed, got)
           /\ cmd_polls' = cmd_polls + 1
           /\ received_ack' = acks
           /\ received_err' = errs
           /\ cmd_error' = IF got \in ErrorKinds THEN got ELSE cmd_error
           /\ IF got = None /\ AckArmBreaks(acks, want)
              THEN \* remove, break, Ok(())
                   /\ pending_cmds' = pending_cmds \ {CmdMsgId}
                   /\ attempts' = attempts
                   /\ cmd_pc' = "done"
                   /\ cmd_ret' = CmdOk
              ELSE IF got \in ErrorKinds /\ ErrArmReturns(errs, want)
              THEN \* remove, return Err(Error::ErrorCmd { source, msg_id })
                   /\ pending_cmds' = pending_cmds \ {CmdMsgId}
                   /\ attempts' = attempts
                   /\ cmd_pc' = "done"
                   /\ cmd_ret' = CmdResult("ErrorCmd", got, CmdMsgId)
              ELSE /\ attempts' = attempts + 1
                   /\ UNCHANGED pending_cmds
                   /\ IF attempts + 1 >=
                           expected_cmd_ack_wait_attempts(cmd_ack_wait)
                      THEN \* insufficient CmdAcks: break, Ok(())
                           /\ cmd_pc' = "done"
                           /\ cmd_ret' = CmdOk
                      ELSE /\ cmd_pc' = "poll"
                           /\ cmd_ret' = cmd_ret
    /\ UNCHANGED <<elders_len, cmd_ack_wait, tasks_done, successful_sends,
                   last_error, acked>>

NextCmd ==
    \/ CmdInsert
    \/ \E ok \in BOOLEAN : CmdSendTask(ok)
    \/ CmdSendJoin
    \/ \E r \in CmdResponses : CmdRespond(r)
    \/ CmdPoll

-----------------------------------------------------------------------------
\* send_query

\* let (sender, mut receiver) = channel::<QueryResponse>(7);
QUERY_CHANNEL_SIZE == 7

\* The name of the chunk a GetChunk query asks for, and another name.
RequestedName == "X"
OtherName == "Y"

\* DataQueryVariant of the query: GetChunk(address), or a RegisterQuery whose
\* QueryResponse variant is the one named (RegisterQuery::error).
QueryVariants == {"GetChunk", "GetRegister", "ReadRegister"}

\* QueryResponse variants whose Err the receive loop saves when the query is
\* no GetChunk.
SavedRegisterErrors ==
    {"GetRegister", "GetRegisterPolicy", "GetRegisterOwner",
     "GetRegisterUserPermissions"}

\* let chunk_addr = if let DataQueryVariant::GetChunk(address) = ..
chunk_addr(variant) == IF variant = "GetChunk" THEN RequestedName ELSE None

\* OperationId: a deterministic hash of the query.
OperationId(variant, name) == <<variant, name>>

\* query.variant.operation_id()
QueryOpId(variant) ==
    OperationId(variant, IF variant = "GetChunk" THEN RequestedName ELSE "R")

\* A QueryResponse: variant(Ok(val)) or variant(Err(val)), with the
\* operation id it answers.
QueryResponse(variant, ok, val, op) ==
    [kind |-> variant, ok |-> ok, val |-> val, op |-> op]

\* Option<QueryResponse>::None
NoResponse == QueryResponse(None, FALSE, None, <<None, None>>)

\* The responses an elder can give to a query of the variant.
ResponsesTo(variant) ==
    IF variant = "GetChunk"
    THEN {QueryResponse(variant, TRUE, n, OperationId(variant, n)) :
              n \in {RequestedName, OtherName}}
         \cup {QueryResponse(variant, FALSE, k, QueryOpId(variant)) :
                  k \in ErrorKinds}
    ELSE {QueryResponse(variant, TRUE, "R", QueryOpId(variant))}
         \cup {QueryResponse(variant, FALSE, k, QueryOpId(variant)) :
                  k \in ErrorKinds}

\* QueryResponse::operation_id()
ResponseOpId(r) == r.op

\* The MsgId of call q.
MsgIdOf(q) == q

\* Whether the sender of call q is still held by pending_queries; once it is
\* dropped the channel is closed.
SenderAlive(q) ==
    \E op \in DOMAIN pending_queries :
        \E i \in 1..Len(pending_queries[op]) : pending_queries[op][i] = MsgIdOf(q)

\* Vec::swap_remove(index)
swap_remove(v, index) ==
    LET last == Len(v)
    IN  IF index = last
        THEN SubSeq(v, 1, last - 1)
        ELSE [SubSeq(v, 1, last - 1) EXCEPT ![index] = v[last]]

\* listeners_for_op.iter().position(|(id, _sender)| *id == msg_id)
position(v, id) ==
    IF \E i \in 1..Len(v) : v[i] = id
    THEN CHOOSE i \in 1..Len(v) :
             v[i] = id /\ \A j \in 1..(i - 1) : v[j] /= id
    ELSE 0

\* The arms of the match in the receive loop, for a received Some(r):
\* "break" (r is the result), "discard" (mismatching chunk) or "error"
\* (saved as error_response and counted as discarded).
MatchArmNoNameCheck(r, addr) ==
    IF r.kind = "GetChunk" /\ r.ok /\ addr /= None
    THEN "break"
    ELSE IF \/ (r.kind = "GetChunk" /\ ~r.ok /\ addr /= None)
            \/ (r.kind \in SavedRegisterErrors /\ ~r.ok /\ addr = None)
    THEN "error"
    ELSE "break"

MatchArmValidDiscarded(r, addr) ==
    IF r.kind = "GetChunk" /\ r.ok /\ addr /= None
    THEN "discard"
    ELSE IF \/ (r.kind = "GetChunk" /\ ~r.ok /\ addr /= None)
            \/ (r.kind \in SavedRegisterErrors /\ ~r.ok /\ addr = None)
    THEN "error"
    ELSE "break"

MatchArm(r, addr) ==
    IF r.kind = "GetChunk" /\ r.ok /\ addr /= None
    THEN IF addr = r.val THEN "break" ELSE "discard"
    ELSE IF \/ (r.kind = "GetChunk" /\ ~r.ok /\ addr /= None)
            \/ (r.kind \in SavedRegisterErrors /\ ~r.ok /\ addr = None)
    THEN "error"
    ELSE "break"

\* What send_query returned: Ok(QueryResult { response, .. }), or an Err
\* whose payload is the elder list (its length here; 0 when there is none).
QueryResult(tag, r) == [tag |-> tag, response |-> r, elders |-> 0]

\* Err(Error::NoResponse(elders))
NoResponseError(elders) ==
    [tag |-> "NoResponse", response |-> NoResponse, elders |-> elders]

\* match response { Some(response) => Ok(QueryResult { .. }),
\*                  None => Err(Error::NoResponse(elders)) }
SendQueryReturn(r, elders) ==
    IF r /= NoResponse THEN QueryResult("Ok", r) ELSE NoResponseError(elders)

\* receiver.recv().await completes when the channel holds a response or,
\* being empty, has lost its sender; until then the call is suspended.
RecvReadyNonBlocking(q) == TRUE

RecvReady(q) == q_chan[q] /= <<>> \/ ~SenderAlive(q)

QueryRunning == QueryResult("Running", NoResponse)

\* The state of the query calls before any has registered its listener;
\* n is the number of calls, m the largest elder set and variants the
\* queries the calls may be issued for (all calls of a run issue the same).
InitQueryCalls(n, m, variants) ==
    /\ calls = 1..n
    /\ q_pc = [q \in 1..n |-> "lookup"]
    /\ \E v \in variants : q_query = [q \in 1..n |-> v]
    /\ q_elders_len \in [1..n -> 0..m]
    /\ pending_queries = <<>>
    /\ q_chan = [q \in 1..n |-> <<>>]
    /\ q_answered = [q \in 1..n |-> 0]
    /\ discarded_responses = [q \in 1..n |-> 0]
    /\ error_response = [q \in 1..n |-> NoResponse]
    /\ response = [q \in 1..n |-> NoResponse]
    /\ q_ret = [q \in 1..n |-> QueryRunning]
    /\ q_consumed = [q \in 1..n |-> <<>>]
    /\ bg_tasks_done = [q \in 1..n |-> 0]
    /\ bg_successful_sends = [q \in 1..n |-> 0]
    /\ bg_last_error = [q \in 1..n |-> None]
    /\ bg_send_res = [q \in 1..n |-> "running"]

\* if let Some(mut entry) = self.pending_queries.get_mut(&op_id) { push }
\* else: the lookup found nothing and its guard is gone; insert comes next.
QLookup(q) ==
    /\ UNCHANGED <<cmdVars, bgVars, restVars>>
    /\ q_pc[q] = "lookup"
    /\ LET op == QueryOpId(q_query[q])
       IN  IF op \in DOMAIN pending_queries
           THEN /\ pending_queries' =
                       [pending_queries EXCEPT
                           ![op] = Append(pending_queries[op], MsgIdOf(q))]
                /\ q_pc' = [q_pc EXCEPT ![q] = "recv"]
           ELSE /\ pending_queries' = pending_queries
                /\ q_pc' = [q_pc EXCEPT ![q] = "insert"]
    /\ UNCHANGED <<calls, q_query, q_elders_len, q_chan, q_answered,
                   discarded_responses, error_response, response, q_ret,
                   q_consumed>>

\* self.pending_queries.insert(op_id, vec![(msg_id, sender)]), which replaces
\* whatever the key maps to; then send_msg_in_bg spawns the fan-out.
QInsert(q) ==
    /\ UNCHANGED <<cmdVars, bgVars, restVars>>
    /\ q_pc[q] = "insert"
    /\ LET op == QueryOpId(q_query[q])
       IN  pending_queries' =
               [o \in DOMAIN pending_queries \cup {op} |->
                   IF o = op THEN <<MsgIdOf(q)>> ELSE pending_queries[o]]
    /\ q_pc' = [q_pc EXCEPT ![q] = "recv"]
    /\ UNCHANGED <<calls, q_query, q_elders_len, q_chan, q_answered,
                   discarded_responses, error_response, response, q_ret,
                   q_consumed>>

\* Whether call q is past send_msg_in_bg, which tokio::spawns the fan-out
\* right after the listener is registered.
BgSpawned(q) == q_pc[q] \notin {"lookup", "insert"}

\* One per-recipient task of the spawned send_msg ends, Ok or with an error
\* that is recorded as last_error.
QSendTask(q, ok) ==
    /\ UNCHANGED <<cmdVars, restVars>>
    /\ BgSpawned(q)
    /\ bg_send_res[q] = "running"
    /\ bg_tasks_done[q] < q_elders_len[q]
    /\ bg_tasks_done' = [bg_tasks_done EXCEPT ![q] = @ + 1]
    /\ bg_successful_sends' =
           [bg_successful_sends EXCEPT ![q] = IF ok THEN @ + 1 ELSE @]
    /\ bg_last_error' =
           [bg_last_error EXCEPT ![q] = IF ok THEN @ ELSE "QuicP2p"]
    /\ UNCHANGED <<calls, q_pc, q_query, q_elders_len, pending_queries,
                   q_chan, q_answered, discarded_responses, error_response,
                   response, q_ret, q_consumed, bg_send_res>>

\* The spawned task: let send_res = self.send_msg(..).await;
\* if send_res.is_err() { error!(..) }. The result goes to the log only.
QSendJoinPropagates(q) ==
    /\ UNCHANGED <<cmdVars, restVars>>
    /\ BgSpawned(q)
    /\ bg_send_res[q] = "running"
    /\ bg_tasks_done[q] = q_elders_len[q]
    /\ LET failed == SendMsgFails(q_elders_len[q], bg_successful_sends[q],
                                  bg_last_error[q])
       IN  /\ bg_send_res' = [bg_send_res EXCEPT
                                 ![q] = IF failed THEN "Err" ELSE "Ok"]
           /\ IF failed /\ q_pc[q] /= "done"
              THEN /\ q_pc' = [q_pc EXCEPT ![q] = "done"]
                   /\ q_ret' = [q_ret EXCEPT
                         ![q] = [tag |-> bg_last_error[q],
                                 response |-> NoResponse, elders |-> 0]]
              ELSE UNCHANGED <<q_pc, q_ret>>
    /\ UNCHANGED <<calls, q_query, q_elders_len, pending_queries,
                   q_chan, q_answered, discarded_responses, error_response,
                   response, q_consumed, bg_tasks_done,
                   bg_successful_sends, bg_last_error>>

QSendJoin(q) ==
    /\ UNCHANGED <<cmdVars, restVars>>
    /\ BgSpawned(q)
    /\ bg_send_res[q] = "running"
    /\ bg_tasks_done[q] = q_elders_len[q]
    /\ bg_send_res' =
           [bg_send_res EXCEPT
               ![q] = IF SendMsgFails(q_elders_len[q], bg_successful_sends[q],
                                      bg_last_error[q])
                      THEN "Err" ELSE "Ok"]
    /\ UNCHANGED <<calls, q_pc, q_query, q_elders_len, pending_queries,
                   q_chan, q_answered, discarded_responses, error_response,
                   response, q_ret, q_consumed, bg_tasks_done,
                   bg_successful_sends, bg_last_error>>

\* An elder that call q's fan-out reached answers with r; the connection
\* listener puts r on the channel of every listener registered under the
\* query's operation id whose receiver still exists and whose channel has
\* room.
QRespond(q, r) ==
    /\ UNCHANGED <<cmdVars, bgVars, restVars>>
    /\ q_pc[q] \in {"recv", "check"}
    /\ q_answered[q] < bg_successful_sends[q]
    /\ r \in ResponsesTo(q_query[q])
    /\ q_answered' = [q_answered EXCEPT ![q] = @ + 1]
    /\ LET op == QueryOpId(q_query[q])
           listeners == IF op \in DOMAIN pending_queries
                        THEN {pending_queries[op][i] :
                                  i \in 1..Len(pending_queries[op])}
                        ELSE {}
       IN  q_chan' = [c \in calls |->
                        IF /\ MsgIdOf(c) \in listeners
                           /\ q_pc[c] \in {"recv", "check"}
                           /\ Len(q_chan[c]) < QUERY_CHANNEL_SIZE
                        THEN Append(q_chan[c], r)
                        ELSE q_chan[c]]
    /\ UNCHANGED <<calls, q_pc, q_query, q_elders_len, pending_queries,
                   discarded_responses, error_response, response, q_ret,
                   q_consumed>>

\* receiver.recv().await and the match on what it returned: Some(r) when the
\* channel holds a response, None when it is empty and its sender is gone.
QRecv(q) ==
    /\ UNCHANGED <<cmdVars, bgVars, restVars>>
    /\ q_pc[q] = "recv"
    /\ RecvReady(q)
    /\ IF q_chan[q] /= <<>>
       THEN LET r == Head(q_chan[q])
                arm == MatchArm(r, chunk_addr(q_query[q]))
            IN  /\ q_chan' = [q_chan EXCEPT ![q] = Tail(@)]
                /\ q_consumed' = [q_consumed EXCEPT ![q] = Append(@, r)]
                /\ response' = [response EXCEPT
                                   ![q] = IF arm = "break" THEN r ELSE @]
                /\ error_response' = [error_response EXCEPT
                                   ![q] = IF arm = "error" THEN r ELSE @]
                /\ discarded_responses' = [discarded_responses EXCEPT
                                   ![q] = IF arm = "break" THEN @ ELSE @ + 1]
                /\ q_pc' = [q_pc EXCEPT
                               ![q] = IF arm = "break" THEN "remove"
                                                       ELSE "check"]
       ELSE /\ q_pc' = [q_pc EXCEPT ![q] = "remove"]
            /\ response' = [response EXCEPT ![q] = NoResponse]
            /\ UNCHANGED <<q_chan, q_consumed, error_response,
                           discarded_responses>>
    /\ UNCHANGED <<calls, q_query, q_elders_len, pending_queries, q_answered,
                   q_ret>>

\* if discarded_responses == elders_len { break error_response; }
\* otherwise the next iteration starts with `let mut error_response = None`.
QCheckNeverBreaks(q) ==
    /\ UNCHANGED <<cmdVars, bgVars, restVars>>
    /\ q_pc[q] = "check"
    /\ error_response' = [error_response EXCEPT ![q] = NoResponse]
    /\ q_pc' = [q_pc EXCEPT ![q] = "recv"]
    /\ UNCHANGED response
    /\ UNCHANGED <<calls, q_query, q_elders_len, pending_queries, q_chan,
                   q_answered, discarded_responses, q_ret, q_consumed>>

QCheck(q) ==
    /\ UNCHANGED <<cmdVars, bgVars, restVars>>
    /\ q_pc[q] = "check"
    /\ IF discarded_responses[q] = q_elders_len[q]
       THEN /\ response' = [response EXCEPT ![q] = error_response[q]]
            /\ q_pc' = [q_pc EXCEPT ![q] = "remove"]
            /\ UNCHANGED error_response
       ELSE /\ error_response' = [error_response EXCEPT ![q] = NoResponse]
            /\ q_pc' = [q_pc EXCEPT ![q] = "recv"]
            /\ UNCHANGED response
    /\ UNCHANGED <<calls, q_query, q_elders_len, pending_queries, q_chan,
                   q_answered, discarded_responses, q_ret, q_consumed>>

\* After the loop: with Some(response), the listener (msg_id, sender) is
\* swap_removed from pending_queries[response.operation_id()]; then the
\* result is Ok(QueryResult) or Err(Error::NoResponse(elders)).
QRemove(q) ==
    /\ UNCHANGED <<cmdVars, bgVars, restVars>>
    /\ q_pc[q] = "remove"
    /\ LET r == response[q]
           op == ResponseOpId(r)
       IN  /\ IF r /= NoResponse /\ op \in DOMAIN pending_queries
              THEN LET index == position(pending_queries[op], MsgIdOf(q))
                   IN  pending_queries' =
                           IF index = 0 THEN pending_queries
                           ELSE [pending_queries EXCEPT
                                    ![op] = swap_remove(@, index)]
              ELSE pending_queries' = pending_queries
           /\ q_ret' = [q_ret EXCEPT
                 ![q] = SendQueryReturn(r, q_elders_len[q])]
    /\ q_pc' = [q_pc EXCEPT ![q] = "done"]
    /\ UNCHANGED <<calls, q_query, q_elders_len, q_chan, q_answered,
                   discarded_responses, error_response, response, q_consumed>>

NextQuery ==
    \/ \E q \in calls : QLookup(q)
    \/ \E q \in calls : QInsert(q)
    \/ \E q \in calls : \E ok \in BOOLEAN : QSendTask(q, ok)
    \/ \E q \in calls : QSendJoin(q)
    \/ \E q \in calls : \E r \in ResponsesTo(q_query[q]) : QRespond(q, r)
    \/ \E q \in calls : QRecv(q)
    \/ \E q \in calls : QCheck(q)
    \/ \E q \in calls : QRemove(q)

-----------------------------------------------------------------------------
\* send_msg

\* const CLIENT_SEND_RETRIES: usize = 3;
CLIENT_SEND_RETRIES == 3

\* What one call of send_and_retry gives: Ok(()) or one of the two errors
\* it maps SendToOneError to.
SendOutcomes == {"Ok", "QuicP2pConnection", "QuicP2pSend"}

\* The recipients, in the order of `nodes`.
Recipients == 1..sm_nodes_len

\* `result` of the task of recipient p, once send_and_retry ran.
TaskResult(p) == sm_sent[p][Len(sm_sent[p])]

\* while result.is_err() && retries < CLIENT_SEND_RETRIES
RetryAgainInclusive(is_err, retries) == is_err /\ retries <= CLIENT_SEND_RETRIES

RetryAgain(is_err, retries) == is_err /\ retries < CLIENT_SEND_RETRIES

\* The task of recipient p has come to its end: it returned
\* (peer_name, result) or it panicked.
TaskEnded(p) ==
    \/ sm_panicked[p]
    \/ /\ sm_sent[p] /= <<>>
       /\ ~RetryAgain(TaskResult(p) /= "Ok", sm_retries[p])

\* What join_all hands back for recipient p: Ok((peer_name, result)) or
\* Err(join_error).
JoinResult(p) == IF sm_panicked[p] THEN "JoinError" ELSE TaskResult(p)

\* for r in results { match r { .. } }: the loop over the join results, in
\* the order of `nodes`, from index i on.
RECURSIVE CollectResults(_, _, _, _)
CollectResults(i, successes, error, peer) ==
    IF i > sm_nodes_len
    THEN [successful_sends |-> successes, last_error |-> error, peer |-> peer]
    ELSE IF JoinResult(i) = "Ok"
    THEN CollectResults(i + 1, successes + 1, error, peer)
    ELSE IF JoinResult(i) = "JoinError"
    THEN CollectResults(i + 1, successes, error, peer)
    ELSE CollectResults(i + 1, successes, JoinResult(i), i)

\* Result<()> of send_msg; an Err carries the error kind and its peer.
SendResult(tag, error, peer) == [tag |-> tag, error |-> error, peer |-> peer]

SendRunning == SendResult("Running", None, 0)

InitSendMsg ==
    /\ sm_pc = "tasks"
    /\ sm_nodes_len \in 0..MaxRecipients
    /\ sm_retries = [p \in 1..sm_nodes_len |-> 0]
    /\ sm_sent = [p \in 1..sm_nodes_len |-> <<>>]
    /\ sm_panicked = [p \in 1..sm_nodes_len |-> FALSE]
    /\ sm_ret = SendRunning

\* The task of recipient p calls send_and_retry: the first time, or again
\* inside the while loop after retries += 1.
TaskSend(p, outcome) ==
    /\ UNCHANGED <<cmdVars, queryVars, elderVars, netVars, contactVars,
                   nodeVars>>
    /\ sm_pc = "tasks"
    /\ ~sm_panicked[p]
    /\ IF sm_sent[p] = <<>> THEN TRUE
       ELSE RetryAgain(TaskResult(p) /= "Ok", sm_retries[p])
    /\ sm_retries' = [sm_retries EXCEPT
                         ![p] = IF sm_sent[p] = <<>> THEN @ ELSE @ + 1]
    /\ sm_sent' = [sm_sent EXCEPT ![p] = Append(@, outcome)]
    /\ UNCHANGED <<sm_pc, sm_nodes_len, sm_panicked, sm_ret>>

\* The spawned task of recipient p panics: its JoinHandle yields a JoinError.
TaskPanics(p) ==
    /\ UNCHANGED <<cmdVars, queryVars, elderVars, netVars, contactVars,
                   nodeVars>>
    /\ sm_pc = "tasks"
    /\ ~TaskEnded(p)
    /\ sm_panicked' = [sm_panicked EXCEPT ![p] = TRUE]
    /\ UNCHANGED <<sm_pc, sm_nodes_len, sm_retries, sm_sent, sm_ret>>

\* join_all(tasks).await, the loop over the results and the final verdict.
SendMsgJoin ==
    /\ UNCHANGED <<cmdVars, queryVars, elderVars, netVars, contactVars,
                   nodeVars>>
    /\ sm_pc = "tasks"
    /\ \A p \in Recipients : TaskEnded(p)
    /\ LET c == CollectResults(1, 0, None, 0)
       IN  sm_ret' = IF SendMsgFails(sm_nodes_len, c.successful_sends,
                                     c.last_error)
                     THEN SendResult("Err", c.last_error, c.peer)
                     ELSE SendResult("Ok", None, 0)
    /\ sm_pc' = "done"
    /\ UNCHANGED <<sm_nodes_len, sm_retries, sm_sent, sm_panicked>>

NextSendMsg ==
    \/ \E p \in Recipients : \E outcome \in SendOutcomes : TaskSend(p, outcome)
    \/ \E p \in Recipients : TaskPanics(p)
    \/ SendMsgJoin

\* No send_msg call of its own exists.
IdleSendMsg ==
    /\ sm_pc = "idle"
    /\ sm_nodes_len = 0
    /\ sm_retries = <<>>
    /\ sm_sent = <<>>
    /\ sm_panicked = <<>>
    /\ sm_ret = SendRunning

-----------------------------------------------------------------------------
\* get_cmd_elders and get_query_elders

\* pub(crate) const NUM_OF_ELDERS_SUBSET_FOR_QUERIES: usize = 3;
NUM_OF_ELDERS_SUBSET_FOR_QUERIES == 3

\* Names are told apart by their first bit; a section prefix is the empty
\* prefix or one bit.
Names == {<<0>>, <<1>>}

Prefixes == {<<>>, <<0>>, <<1>>}

\* Prefix::matches(name)
Matches(prefix, name) == prefix = SubSeq(name, 1, Len(prefix))

\* The prefix sets a SectionTree can hold: no two compatible prefixes.
PrefixCovers == {{}, {<<>>}, {<<0>>}, {<<1>>}, {<<0>>, <<1>>}}

\* The section authority provider of a prefix with n elders: its section
\* key and its elders, each elder a peer of that section.
Sap(prefix, n) ==
    [prefix |-> prefix,
     section_key |-> <<"pk", prefix>>,
     elders |-> {<<prefix, i>> : i \in 1..n}]

\* SectionTree::closest(name, None): the SAP whose prefix matches the name,
\* else the SAP of the closest prefix (with these prefixes, the only one
\* the tree holds); no SAP (the empty set) when the tree holds none.
closest(network, name) ==
    IF \E p \in DOMAIN network : Matches(p, name)
    THEN {Sap(p, network[p]) : p \in {x \in DOMAIN network : Matches(x, name)}}
    ELSE {Sap(p, network[p]) : p \in DOMAIN network}

\* sap.elders_vec(): the elders in the order of their names.
elders_vec(sap) ==
    [i \in 1..Cardinality(sap.elders) |-> <<sap.prefix, i>>]

\* sap.section_key()
section_key(sap) == sap.section_key

\* sn_interface::network_knowledge::supermajority
supermajority(group_size) == 1 + (group_size * 2) \div 3

\* The orders elders.shuffle(&mut OsRng) can leave the vector in.
Shuffles(v) ==
    {[i \in 1..Len(v) |-> v[f[i]]] :
        f \in {g \in [1..Len(v) -> 1..Len(v)] :
                  \A i, j \in 1..Len(v) : g[i] = g[j] => i = j}}

\* Iterator::take(n).collect()
take(v, n) == SubSeq(v, 1, IF Len(v) < n THEN Len(v) ELSE n)

\* Result<(bls::PublicKey, Vec<Peer>)> of both functions: Ok carries the
\* key and the elders, the errors carry connections and required, or dst.
EldersResult(tag, key, elders, connections, required, dst) ==
    [tag |-> tag, section_pk |-> key, elders |-> elders,
     connections |-> connections, required |-> required, dst |-> dst]

EldersRunning == EldersResult("Running", <<>>, <<>>, 0, 0, <<>>)

\* Session::get_cmd_elders(dst_address)
get_cmd_elders_supermajority_only(network, dst_address) ==
    LET a_close_sap == closest(network, dst_address)
    IN  IF a_close_sap /= {}
        THEN LET sap == CHOOSE x \in a_close_sap : TRUE
                 sap_elders == elders_vec(sap)
                 section_pk == section_key(sap)
                 targets_count == supermajority(Len(sap_elders))
             IN  IF Len(sap_elders) < targets_count
                 THEN EldersResult("InsufficientElderKnowledge", section_pk,
                                   <<>>, Len(sap_elders), targets_count, <<>>)
                 ELSE EldersResult("Ok", section_pk,
                                   take(sap_elders, targets_count), 0, 0, <<>>)
        ELSE EldersResult("NoNetworkKnowledge", <<>>, <<>>, 0, 0, dst_address)

get_cmd_elders(network, dst_address) ==
    LET a_close_sap == closest(network, dst_address)
    IN  IF a_close_sap /= {}
        THEN LET sap == CHOOSE x \in a_close_sap : TRUE
                 sap_elders == elders_vec(sap)
                 section_pk == section_key(sap)
                 targets_count == supermajority(Len(sap_elders))
             IN  IF Len(sap_elders) < targets_count
                 THEN EldersResult("InsufficientElderKnowledge", section_pk,
                                   <<>>, Len(sap_elders), targets_count, <<>>)
                 ELSE EldersResult("Ok", section_pk, sap_elders, 0, 0, <<>>)
        ELSE EldersResult("NoNetworkKnowledge", <<>>, <<>>, 0, 0, dst_address)

\* Session::get_query_elders(dst), the shuffle having left the elders in
\* the order `shuffled`.
get_query_elders(network, dst, shuffled) ==
    LET sap == closest(network, dst)
    IN  IF sap = {}
        THEN EldersResult("NoNetworkKnowledge", <<>>, <<>>, 0, 0, dst)
        ELSE LET section_pk == section_key(CHOOSE x \in sap : TRUE)
                 elders == take(shuffled, NUM_OF_ELDERS_SUBSET_FOR_QUERIES)
                 q_len == Len(elders)
             IN  IF q_len < NUM_OF_ELDERS_SUBSET_FOR_QUERIES /\ q_len > 1
                 THEN EldersResult("InsufficientElderConnections", <<>>, <<>>,
                                   q_len, NUM_OF_ELDERS_SUBSET_FOR_QUERIES,
                                   <<>>)
                 ELSE EldersResult("Ok", section_pk, elders, 0, 0, <<>>)

\* A session that knows some sections, asked for the elders of a name.
InitElders ==
    /\ el_pc = "call"
    /\ network_readers = {}
    /\ \E cover \in PrefixCovers : el_network \in [cover -> 0..MaxSapElders]
    /\ el_dst \in Names
    /\ el_call = None
    /\ el_ret = EldersRunning

\* self.network.read().await of the lookup resolves.
ElReadNetwork ==
    /\ UNCHANGED <<cmdVars, queryVars, sendVars, contactVars, nodeVars>>
    /\ el_pc = "call"
    /\ network_readers' = network_readers \cup {"elders"}
    /\ el_pc' = "read"
    /\ UNCHANGED <<el_network, el_dst, el_call, el_ret>>

\* The lookup under the guard, which is dropped with the statement, and
\* the rest of the function.
GetCmdElders ==
    /\ UNCHANGED <<cmdVars, queryVars, sendVars, contactVars, nodeVars>>
    /\ el_pc = "read"
    /\ network_readers' = network_readers \ {"elders"}
    /\ el_call' = "cmd"
    /\ el_ret' = get_cmd_elders(el_network, el_dst)
    /\ el_pc' = "done"
    /\ UNCHANGED <<el_network, el_dst>>

GetQueryElders(shuffled) ==
    /\ UNCHANGED <<cmdVars, queryVars, sendVars, contactVars, nodeVars>>
    /\ el_pc = "read"
    /\ network_readers' = network_readers \ {"elders"}
    /\ el_call' = "query"
    /\ el_ret' = get_query_elders(el_network, el_dst, shuffled)
    /\ el_pc' = "done"
    /\ UNCHANGED <<el_network, el_dst>>

\* The elders of the closest SAP in every order a shuffle can give; the
\* empty vector when there is no SAP.
ShuffledElders ==
    LET sap == closest(el_network, el_dst)
    IN  IF sap = {} THEN {<<>>}
        ELSE Shuffles(elders_vec(CHOOSE x \in sap : TRUE))

NextElders ==
    \/ ElReadNetwork
    \/ GetCmdElders
    \/ \E shuffled \in ShuffledElders : GetQueryElders(shuffled)

\* No elder lookup of its own is running.
IdleElders ==
    /\ el_pc = "idle"
    /\ network_readers = {}
    /\ el_network = <<>>
    /\ el_dst = <<>>
    /\ el_call = None
    /\ el_ret = EldersRunning

-----------------------------------------------------------------------------
\* make_contact_with_nodes

\* pub(crate) const NODES_TO_CONTACT_PER_STARTUP_BATCH: usize = 3;
NODES_TO_CONTACT_PER_STARTUP_BATCH == 3

\* const INITIAL_WAIT: u64 = 1; (seconds)
INITIAL_WAIT == 1

\* ExponentialBackoff { initial_interval, max_interval, max_elapsed_time },
\* in milliseconds.
INITIAL_INTERVAL_MS == 1500

MAX_INTERVAL_MS == 5000

MAX_ELAPSED_TIME_MS == 60000

\* Option<Duration>::None of next_backoff; a Some(wait) is never zero.
NoWait == 0

\* The interval around current_interval that the randomization factor 0.5
\* of the backoff allows; its two ends stand for it.
RandomizedIntervals(interval) ==
    {interval - interval \div 2, interval + interval \div 2}

\* ExponentialBackoff::next_backoff: None once max_elapsed_time is passed,
\* or would be passed by the wait.
next_backoff(elapsed, randomized) ==
    IF elapsed > MAX_ELAPSED_TIME_MS THEN NoWait
    ELSE IF elapsed + randomized <= MAX_ELAPSED_TIME_MS THEN randomized
    ELSE NoWait

\* ExponentialBackoff::increment_current_interval, multiplier 1.5.
increment_current_interval(interval) ==
    Min((interval * 3) \div 2, MAX_INTERVAL_MS)

\* A batch: the range nodes[start..end] handed to send_msg_in_bg.
Batch(start, end) == <<start, end>>

\* if next_batch_end > nodes.len()
RanOverLate(next_batch_end, len) ==
    next_batch_end > len + NODES_TO_CONTACT_PER_STARTUP_BATCH

RanOver(next_batch_end, len) == next_batch_end > len

\* start_pos of the next batch: outgoing_msg_rounds * 3, or last_start_pos
\* when that would run over the known contacts.
StartPosUnchecked(rounds, len, last) ==
    rounds * NODES_TO_CONTACT_PER_STARTUP_BATCH

StartPos(rounds, len, last) ==
    IF rounds * NODES_TO_CONTACT_PER_STARTUP_BATCH > len THEN last
    ELSE rounds * NODES_TO_CONTACT_PER_STARTUP_BATCH

\* The head of `while known_sap.is_none()`, with the check of
\* tried_every_contact that opens its body.
LoopExitGivesUpEarly(known, tried) ==
    IF known THEN "Ok" ELSE "NetworkContact"

LoopExitKeepsTrying(known, tried) ==
    IF known THEN "Ok" ELSE "continue"

LoopExit(known, tried) ==
    IF known THEN "Ok"
    ELSE IF tried THEN "NetworkContact"
    ELSE "continue"

\* Result<(), Error>; Err(Error::NetworkContact(nodes)) carries the seeds
\* (their number here).
ContactResult(tag, nodes) == [tag |-> tag, nodes |-> nodes]

ContactRunning == ContactResult("Running", 0)

InitContact ==
    /\ mc_pc = "start"
    /\ mc_nodes_len \in 0..MaxSeeds
    /\ mc_network_sap \in BOOLEAN
    /\ knowledge_checks = 0
    /\ outgoing_msg_rounds = 1
    /\ last_start_pos = 0
    /\ tried_every_contact = FALSE
    /\ known_sap = FALSE
    /\ current_interval = INITIAL_INTERVAL_MS
    /\ mc_elapsed = 0
    /\ mc_wait = 0
    /\ mc_expired = FALSE
    /\ mc_batches = <<>>
    /\ mc_ret = ContactRunning

\* The first batch goes out, the locals and the backoff are set up and the
\* call sleeps for INITIAL_WAIT seconds.
McStartWholeList ==
    /\ UNCHANGED <<cmdVars, queryVars, sendVars, elderVars, netVars,
                   nodeVars>>
    /\ mc_pc = "start"
    /\ mc_batches' = <<Batch(0, mc_nodes_len)>>
    /\ knowledge_checks' = 0
    /\ outgoing_msg_rounds' = 1
    /\ last_start_pos' = 0
    /\ tried_every_contact' = FALSE
    /\ current_interval' = INITIAL_INTERVAL_MS
    /\ mc_elapsed' = 0
    /\ mc_wait' = INITIAL_WAIT * 1000
    /\ mc_pc' = "sleep"
    /\ UNCHANGED <<mc_nodes_len, mc_network_sap, known_sap, mc_expired,
                   mc_ret>>

McStart ==
    /\ UNCHANGED <<cmdVars, queryVars, sendVars, elderVars, netVars,
                   nodeVars>>
    /\ mc_pc = "start"
    /\ mc_batches' =
          <<Batch(0, Min(NODES_TO_CONTACT_PER_STARTUP_BATCH, mc_nodes_len))>>
    /\ knowledge_checks' = 0
    /\ outgoing_msg_rounds' = 1
    /\ last_start_pos' = 0
    /\ tried_every_contact' = FALSE
    /\ current_interval' = INITIAL_INTERVAL_MS
    /\ mc_elapsed' = 0
    /\ mc_wait' = INITIAL_WAIT * 1000
    /\ mc_pc' = "sleep"
    /\ UNCHANGED <<mc_nodes_len, mc_network_sap, known_sap, mc_expired,
                   mc_ret>>

\* A sleep ends and self.network.read().await resolves.
McSleepEnds ==
    /\ UNCHANGED <<cmdVars, queryVars, sendVars, elderVars, nodeVars>>
    /\ mc_pc = "sleep"
    /\ network_readers' = network_readers \cup {"contact"}
    /\ mc_pc' = "read"
    /\ UNCHANGED <<mc_nodes_len, mc_network_sap, knowledge_checks,
                   outgoing_msg_rounds, last_start_pos, tried_every_contact,
                   known_sap, current_interval, mc_elapsed, mc_wait,
                   mc_expired, mc_batches, mc_ret>>

\* known_sap is read from self.network under the guard, which is dropped
\* with the statement.
McWake ==
    /\ UNCHANGED <<cmdVars, queryVars, sendVars, elderVars, nodeVars>>
    /\ mc_pc = "read"
    /\ network_readers' = network_readers \ {"contact"}
    /\ mc_elapsed' = mc_elapsed + mc_wait
    /\ mc_wait' = 0
    /\ known_sap' = mc_network_sap
    /\ mc_pc' = "loop"
    /\ UNCHANGED <<mc_nodes_len, mc_network_sap, knowledge_checks,
                   outgoing_msg_rounds, last_start_pos, tried_every_contact,
                   current_interval, mc_expired, mc_batches, mc_ret>>

\* One pass of `while known_sap.is_none()`: the exit or the give-up, or
\* one more knowledge check and, after the second, the next batch with the
\* backoff's next wait; `randomized` is the interval the backoff drew.
McLoop(randomized) ==
    /\ UNCHANGED <<cmdVars, queryVars, sendVars, elderVars, nodeVars>>
    /\ mc_pc = "loop"
    /\ LoopExit(known_sap, tried_every_contact) /= "NetworkContact" =>
          "contact" \in network_readers
    /\ network_readers' = network_readers \ {"contact"}
    /\ LET exit == LoopExit(known_sap, tried_every_contact)
           start_pos == StartPos(outgoing_msg_rounds, mc_nodes_len,
                                 last_start_pos)
           next_batch_end == start_pos + NODES_TO_CONTACT_PER_STARTUP_BATCH
           ran_over == RanOver(next_batch_end, mc_nodes_len)
           next_wait == next_backoff(mc_elapsed, randomized)
       IN  IF exit /= "continue"
           THEN /\ mc_ret' = ContactResult(exit, IF exit = "Ok" THEN 0
                                                 ELSE mc_nodes_len)
                /\ mc_pc' = "done"
                /\ UNCHANGED <<knowledge_checks, outgoing_msg_rounds,
                               last_start_pos, tried_every_contact,
                               current_interval, mc_wait, mc_expired,
                               mc_batches>>
           ELSE IF knowledge_checks + 1 > 2
           THEN /\ knowledge_checks' = knowledge_checks + 1
                /\ outgoing_msg_rounds' = outgoing_msg_rounds + 1
                /\ last_start_pos' = start_pos
                /\ tried_every_contact' = (tried_every_contact \/ ran_over)
                /\ mc_batches' =
                      Append(mc_batches,
                             IF ran_over THEN Batch(start_pos, mc_nodes_len)
                             ELSE Batch(start_pos, next_batch_end))
                /\ current_interval' =
                      IF mc_elapsed > MAX_ELAPSED_TIME_MS THEN current_interval
                      ELSE increment_current_interval(current_interval)
                /\ mc_wait' = next_wait
                /\ mc_expired' = (mc_expired \/ next_wait = NoWait)
                /\ mc_pc' = "sleep"
                /\ UNCHANGED mc_ret
           ELSE /\ knowledge_checks' = knowledge_checks + 1
                /\ UNCHANGED <<outgoing_msg_rounds, last_start_pos,
                               tried_every_contact, current_interval,
                               mc_wait, mc_expired, mc_batches, mc_pc,
                               mc_ret>>
    /\ UNCHANGED <<mc_nodes_len, mc_network_sap, known_sap, mc_elapsed>>

\* self.network.read().await of the known_sections_count() of a pass, or
\* of the one before Ok(()), resolves.
McReadNetwork ==
    /\ UNCHANGED <<cmdVars, queryVars, sendVars, elderVars, nodeVars>>
    /\ mc_pc = "loop"
    /\ LoopExit(known_sap, tried_every_contact) /= "NetworkContact"
    /\ "contact" \notin network_readers
    /\ network_readers' = network_readers \cup {"contact"}
    /\ UNCHANGED contactVars

\* An anti-entropy response of a contacted seed puts a SAP into
\* self.network, under its write guard.
SapArrives ==
    /\ UNCHANGED <<cmdVars, queryVars, sendVars, elderVars, netVars,
                   nodeVars>>
    /\ mc_pc \in {"sleep", "loop"}
    /\ network_readers = {}
    /\ ~mc_network_sap
    /\ \E i \in 1..Len(mc_batches) : mc_batches[i][1] < mc_batches[i][2]
    /\ mc_network_sap' = TRUE
    /\ UNCHANGED <<mc_pc, mc_nodes_len, knowledge_checks,
                   outgoing_msg_rounds, last_start_pos, tried_every_contact,
                   known_sap, current_interval, mc_elapsed, mc_wait,
                   mc_expired, mc_batches, mc_ret>>

\* The task is held up (a lock of self.network, the scheduler) while its
\* clock runs on.
ClockDelay ==
    /\ UNCHANGED <<cmdVars, queryVars, sendVars, elderVars, netVars,
                   nodeVars>>
    /\ mc_pc \in {"sleep", "loop"}
    /\ mc_elapsed + MAX_ELAPSED_TIME_MS \div 2 <= MaxClockMs
    /\ mc_elapsed' = mc_elapsed + MAX_ELAPSED_TIME_MS \div 2
    /\ UNCHANGED <<mc_pc, mc_nodes_len, mc_network_sap, knowledge_checks,
                   outgoing_msg_rounds, last_start_pos, tried_every_contact,
                   known_sap, current_interval, mc_wait, mc_expired,
                   mc_batches, mc_ret>>

NextContact ==
    \/ McStart
    \/ McSleepEnds
    \/ McWake
    \/ McReadNetwork
    \/ \E randomized \in RandomizedIntervals(current_interval) :
          McLoop(randomized)
    \/ SapArrives
    \/ ClockDelay

\* No make_contact_with_nodes call exists.
IdleContact ==
    /\ mc_pc = "idle"
    /\ mc_nodes_len = 0
    /\ mc_network_sap = FALSE
    /\ knowledge_checks = 0
    /\ outgoing_msg_rounds = 1
    /\ last_start_pos = 0
    /\ tried_every_contact = FALSE
    /\ known_sap = FALSE
    /\ current_interval = INITIAL_INTERVAL_MS
    /\ mc_elapsed = 0
    /\ mc_wait = 0
    /\ mc_expired = FALSE
    /\ mc_batches = <<>>
    /\ mc_ret = ContactRunning

-----------------------------------------------------------------------------
\* Dispatcher::handle_scheduled_dkg_timeout and the drop of the Dispatcher
\* (dispatcher.rs).  The cancel channel is a tokio watch channel: a value
\* with a version; a receiver remembers the version it has seen and its
\* changed() is ready when the channel's version differs from it.

Tokens == 1..MaxTimers

\* Option<Cmd> of handle_scheduled_dkg_timeout; "Pending" while the future
\* has not resolved.
TimerResult(tag, token) == [tag |-> tag, token |-> token]

TimerPending == TimerResult("Pending", 0)

\* The version a new watch channel starts with; cancel_timer_rx, which is
\* only ever cloned, keeps it as its seen version.
InitialVersion == 0

\* The branches of the select! that are ready when the future is polled.
ReadyBranchesSleepAlways(t) ==
    {b \in {"sleep", "changed"} :
        \/ b = "sleep"
        \/ b = "changed" /\ cancel_version /= tm_seen[t]}

ReadyBranches(t) ==
    {b \in {"sleep", "changed"} :
        \/ b = "sleep" /\ tm_elapsed[t]
        \/ b = "changed" /\ cancel_version /= tm_seen[t]}

\* Dispatcher::new: watch::channel(false), no timer scheduled.
InitTimers ==
    /\ cancel_value = FALSE
    /\ cancel_version = InitialVersion
    /\ tm_pc = [t \in Tokens |-> "idle"]
    /\ tm_seen = [t \in Tokens |-> InitialVersion]
    /\ tm_elapsed = [t \in Tokens |-> FALSE]
    /\ tm_ret = [t \in Tokens |-> TimerPending]
    /\ tm_at_drop = [t \in Tokens |-> "none"]

\* The call starts: the receiver is cloned and the flag is read; None at
\* once when it is set, else the future enters the select!.
TimerStartUnchecked(t) ==
    /\ UNCHANGED <<cmdVars, queryVars, sendVars, elderVars, netVars,
                   contactVars, dispVars, auxVars>>
    /\ tm_pc[t] = "idle"
    /\ tm_seen' = [tm_seen EXCEPT ![t] = InitialVersion]
    /\ tm_pc' = [tm_pc EXCEPT ![t] = "select"]
    /\ UNCHANGED <<cancel_value, cancel_version, tm_elapsed, tm_ret,
                   tm_at_drop>>

TimerStart(t) ==
    /\ UNCHANGED <<cmdVars, queryVars, sendVars, elderVars, netVars,
                   contactVars, dispVars, auxVars>>
    /\ tm_pc[t] = "idle"
    /\ tm_seen' = [tm_seen EXCEPT ![t] = InitialVersion]
    /\ IF cancel_value
       THEN /\ tm_ret' = [tm_ret EXCEPT ![t] = TimerResult("None", 0)]
            /\ tm_pc' = [tm_pc EXCEPT ![t] = "done"]
       ELSE /\ tm_pc' = [tm_pc EXCEPT ![t] = "select"]
            /\ UNCHANGED tm_ret
    /\ UNCHANGED <<cancel_value, cancel_version, tm_elapsed, tm_at_drop>>

\* sleep_facility(duration) completes: the duration has passed.
SleepElapses(t) ==
    /\ UNCHANGED <<cmdVars, queryVars, sendVars, elderVars, netVars,
                   contactVars, dispVars, auxVars>>
    /\ tm_pc[t] = "select"
    /\ ~tm_elapsed[t]
    /\ tm_elapsed' = [tm_elapsed EXCEPT ![t] = TRUE]
    /\ UNCHANGED <<cancel_value, cancel_version, tm_pc, tm_seen, tm_ret,
                   tm_at_drop>>

\* The runtime polls the future: select! takes one of its ready branches
\* (it polls them in random order).
TimerSelect(t, branch) ==
    /\ UNCHANGED <<cmdVars, queryVars, sendVars, elderVars, netVars,
                   contactVars, dispVars, auxVars>>
    /\ tm_pc[t] = "select"
    /\ branch \in ReadyBranches(t)
    /\ tm_ret' = [tm_ret EXCEPT ![t] =
                     IF branch = "sleep"
                     THEN TimerResult("HandleDkgTimeout", t)
                     ELSE TimerResult("None", 0)]
    /\ tm_pc' = [tm_pc EXCEPT ![t] = "done"]
    /\ UNCHANGED <<cancel_value, cancel_version, tm_seen, tm_elapsed,
                   tm_at_drop>>

\* impl Drop for Dispatcher: cancel_timer_tx.send(true).  tm_at_drop
\* records where each timer stood at that moment.
DropDispatcher ==
    /\ UNCHANGED <<cmdVars, queryVars, sendVars, elderVars, netVars,
                   contactVars, dispVars, auxVars>>
    /\ ~cancel_value
    /\ cancel_value' = TRUE
    /\ cancel_version' = cancel_version + 1
    /\ tm_at_drop' =
          [t \in Tokens |->
              IF tm_pc[t] = "select"
              THEN IF tm_elapsed[t] THEN "elapsed" ELSE "sleeping"
              ELSE IF tm_pc[t] = "done" THEN "resolved" ELSE "unscheduled"]
    /\ UNCHANGED <<tm_pc, tm_seen, tm_elapsed, tm_ret>>

NextTimers ==
    \/ \E t \in Tokens : TimerStart(t)
    \/ \E t \in Tokens : SleepElapses(t)
    \/ \E t \in Tokens : \E branch \in {"sleep", "changed"} :
          TimerSelect(t, branch)
    \/ DropDispatcher

\* No Dispatcher exists.
IdleTimers ==
    /\ cancel_value = FALSE
    /\ cancel_version = InitialVersion
    /\ tm_pc = [t \in Tokens |-> "idle"]
    /\ tm_seen = [t \in Tokens |-> InitialVersion]
    /\ tm_elapsed = [t \in Tokens |-> FALSE]
    /\ tm_ret = [t \in Tokens |-> TimerPending]
    /\ tm_at_drop = [t \in Tokens |-> "none"]

-----------------------------------------------------------------------------
\* Dispatcher::process_cmd (dispatcher.rs): calls of process_cmd on one
\* Dispatcher, each with its own Cmd, over the Node behind self.node.

\* The process_cmd calls that run on the Dispatcher.
Handlers == {1, 2}

\* Peers and the names of nodes, by number.
Peers == 1..MaxPeers

\* sn_interface::types::Peer: a name and an address.
Peer(name, addr) == [name |-> name, addr |-> addr]

NoPeer == Peer(0, 0)

\* The peer of a node that kept its name and address.
PeerOf(i) == Peer(i, i)

\* The items of data that can be replicated.
Data == {"d1", "d2"}

\* The operation id of the queries of AddToPendingQueries.
QueryOperationId == 1

\* A Cmd: its variant and the fields the variants use (peer: the peer of
\* HandlePeerFailedSend, the recipient of EnqueueDataForReplication, the
\* origin of AddToPendingQueries; peers: the recipients of SendMsg, the
\* names of ProposeVoteNodesOffline; target: target_adult, or the node a
\* proposal is about).
Cmd(kind, peer, peers, data, target) ==
    [kind |-> kind, peer |-> peer, peers |-> peers, data |-> data,
     target |-> target]

NoCmd == Cmd("None", NoPeer, {}, <<>>, 0)

CleanupPeerLinks == Cmd("CleanupPeerLinks", NoPeer, {}, <<>>, 0)

SendMsg(recipients) == Cmd("SendMsg", NoPeer, recipients, <<>>, 0)

HandlePeerFailedSend(peer) ==
    Cmd("HandlePeerFailedSend", peer, {}, <<>>, 0)

EnqueueDataForReplication(recipient, data_batch) ==
    Cmd("EnqueueDataForReplication", recipient, {}, data_batch, 0)

ProposeVoteNodesOffline(names) ==
    Cmd("ProposeVoteNodesOffline", NoPeer, names, <<>>, 0)

\* The cmd send_proposal returns: the proposal Offline(name) for these
\* recipients.
OfflineProposal(recipients, name) ==
    Cmd("SendMsg", NoPeer, recipients, <<>>, name)

AddToPendingQueries(origin, target_adult) ==
    Cmd("AddToPendingQueries", origin, {}, <<>>, target_adult)

ValidateMsg == Cmd("ValidateMsg", NoPeer, {}, <<>>, 0)

HandleValidServiceMsg == Cmd("HandleValidServiceMsg", NoPeer, {}, <<>>, 0)

HandleDkgTimeout(token) == Cmd("HandleDkgTimeout", NoPeer, {}, <<>>, token)

\* The variants whose handler takes self.node.read().
ReadKinds ==
    {"CleanupPeerLinks", "SendMsg", "ValidateMsg", "HandleValidServiceMsg",
     "HandleDkgTimeout"}

\* Result<Vec<Cmd>>; "Running" while process_cmd has not returned.
HandlerResult(tag, cmds) == [tag |-> tag, cmds |-> cmds]

HandlerRunning == HandlerResult("Running", <<>>)

\* The RwLock: 0 for no writer.
Lock(writer, readers) == [writer |-> writer, readers |-> readers]

Unlocked == Lock(0, {})

\* What the lock is after handler h dropped its guard.
KeptAfterReturn(h) == node_lock

Released(h) ==
    Lock(IF node_lock.writer = h THEN 0 ELSE node_lock.writer,
         node_lock.readers \ {h})

HoldsLock(h) == node_lock.writer = h \/ h \in node_lock.readers

\* A set of numbers as the Vec a BTreeSet iterates to.
RECURSIVE SortedSeq(_)
SortedSeq(S) ==
    IF S = {} THEN <<>>
    ELSE LET m == CHOOSE x \in S : \A y \in S : x <= y
         IN  <<m>> \o SortedSeq(S \ {m})

\* into_wire_msgs after the signing: one message per recipient whose name
\* network_knowledge.dst() resolves, the others are dropped.
into_wire_msgs_keeps_all(dst, recipients) == SortedSeq(recipients)

into_wire_msgs(dst, recipients) ==
    SortedSeq({p \in recipients : p \in dst})

\* Result of comm.send(peer, msg).
CommResults == {"Ok", "FailedSend", "OtherError"}

\* The cmds of the SendMsg arm: a HandlePeerFailedSend per FailedSend.
RECURSIVE FailedSendCmds(_, _, _)
FailedSendCmds(peer_msgs, results, i) ==
    IF i > Len(peer_msgs) THEN <<>>
    ELSE (IF results[i] = "FailedSend"
          THEN <<HandlePeerFailedSend(PeerOf(peer_msgs[i]))>>
          ELSE <<>>) \o FailedSendCmds(peer_msgs, results, i + 1)

\* NetworkKnowledge::find_member_by_addr: the member with that address.
find_member_by_addr(members, addr) ==
    IF addr \in members THEN {PeerOf(addr)} ELSE {}

\* Node::log_comm_issue: one more issue against the name.
log_comm_issue(issues, name) == [issues EXCEPT ![name] = @ + 1]

\* Node::handle_failed_send, as the issues it leaves.
handle_failed_send_of_adults_too(members, is_elder, issues, addr) ==
    LET found == find_member_by_addr(members, addr)
    IN  IF found = {} THEN issues
        ELSE log_comm_issue(issues, (CHOOSE p \in found : TRUE).name)

handle_failed_send(members, is_elder, issues, addr) ==
    LET found == find_member_by_addr(members, addr)
    IN  IF found = {} THEN issues
        ELSE IF ~is_elder THEN issues
        ELSE log_comm_issue(issues, (CHOOSE p \in found : TRUE).name)

\* The data batches of up to MaxBatch items.
Batches == UNION {[1..n -> Data] : n \in 0..MaxBatch}

\* One pass of the loop of EnqueueDataForReplication over the queue
\* pending_data_to_replicate_to_peers.
enqueue_replacing(queue, data, recipient) ==
    [d \in DOMAIN queue \cup {data} |->
        IF d = data THEN {recipient} ELSE queue[d]]

enqueue(queue, data, recipient) ==
    IF data \in DOMAIN queue
    THEN [queue EXCEPT ![data] = @ \cup {recipient}]
    ELSE [d \in DOMAIN queue \cup {data} |->
             IF d = data THEN {recipient} ELSE queue[d]]

\* What info.leave() and send_proposal can come to for a member.
ProposalOutcomes == {"Ok", "LeaveError", "SendError"}

\* cast_offline_proposals: the elders the proposals go to.
offline_recipients_unfiltered(elders, names) == elders

offline_recipients(elders, names) == {peer \in elders : peer \notin names}

\* cast_offline_proposals: the loop over names from its i-th name on, with
\* the cmds collected so far; outcome[name] is what leave() and
\* send_proposal come to for the member of that name.
RECURSIVE cast_from(_, _, _, _, _, _)
cast_from(members, elders, names, outcome, i, result) ==
    IF i > Len(names) THEN HandlerResult("Ok", result)
    ELSE IF names[i] \notin members
    THEN cast_from(members, elders, names, outcome, i + 1, result)
    ELSE IF outcome[names[i]] = "LeaveError" THEN HandlerResult("Err", <<>>)
    ELSE IF outcome[names[i]] = "SendError"
    THEN cast_from(members, elders, names, outcome, i + 1, result)
    ELSE cast_from(members, elders, names, outcome, i + 1,
                   Append(result, OfflineProposal(elders, names[i])))

\* Node::cast_offline_proposals.
cast_offline_proposals(members, elders, names, outcome) ==
    cast_from(members, offline_recipients(elders, names), SortedSeq(names),
              outcome, 1, <<>>)

\* Cache::remove_expired: the entries that timed out are gone.
remove_expired(cache, expired) ==
    [k \in DOMAIN cache \ expired |-> cache[k]]

\* Cache::set: the value is stored under the key, in place of a prior one.
set(cache, key, value) ==
    [k \in DOMAIN cache \cup {key} |-> IF k = key THEN value ELSE cache[k]]

\* The key pending_data_queries is searched with.
lookup_key(operation_id, origin, target_adult) ==
    <<operation_id, origin.name>>

\* The arm of AddToPendingQueries, as the pending_data_queries it leaves.
add_to_pending_queries(cache, expired, operation_id, origin, target_adult) ==
    LET live == remove_expired(cache, expired)
        key  == lookup_key(operation_id, origin, target_adult)
    IN  IF key \in DOMAIN live
        THEN [live EXCEPT ![key] = @ \cup {origin}]
        ELSE set(live, <<operation_id, target_adult>>, {origin})

\* A Dispatcher over a Node with these members, elders and routes; nothing
\* is queued and no process_cmd call has started.
InitDispatcher(members, elders, is_elder, dst) ==
    /\ node_lock = Unlocked
    /\ h_pc = [h \in Handlers |-> "idle"]
    /\ h_cmd = [h \in Handlers |-> NoCmd]
    /\ h_ret = [h \in Handlers |-> HandlerRunning]
    /\ h_peer_msgs = [h \in Handlers |-> <<>>]
    /\ h_members = [h \in Handlers |-> {}]
    /\ h_i = [h \in Handlers |-> 0]
    /\ nd_members \in members
    /\ nd_elders \in elders
    /\ nd_is_elder \in is_elder
    /\ nd_dst \in dst
    /\ nd_issues = [n \in Peers |-> 0]
    /\ pending_data_to_replicate_to_peers = <<>>
    /\ pending_data_queries = <<>>
    /\ expired_queries = {}
    /\ comm_sent = [h \in Handlers |-> <<>>]
    /\ comm_cleaned = [h \in Handlers |-> <<>>]

\* process_cmd(cmd) is called: the arm of the variant starts by waiting
\* for the lock of self.node.
Begin(h, cmd) ==
    /\ UNCHANGED <<cmdVars, queryVars, sendVars, elderVars, netVars,
                   contactVars, timerVars, auxVars>>
    /\ h_pc[h] = "idle"
    /\ h_cmd' = [h_cmd EXCEPT ![h] = cmd]
    /\ IF cmd.kind = "EnqueueDataForReplication" /\ cmd.data = <<>>
       THEN /\ h_pc' = [h_pc EXCEPT ![h] = "done"]
            /\ h_ret' = [h_ret EXCEPT ![h] = HandlerResult("Ok", <<>>)]
       ELSE /\ h_pc' = [h_pc EXCEPT ![h] =
                           IF cmd.kind \in ReadKinds THEN "read"
                           ELSE "write"]
            /\ UNCHANGED h_ret
    /\ UNCHANGED <<node_lock, h_peer_msgs, h_members, h_i, nodeState,
                   expired_queries, comm_sent, comm_cleaned>>

\* self.node.read().await completes: no writer holds the lock.
AcquireRead(h) ==
    /\ UNCHANGED <<cmdVars, queryVars, sendVars, elderVars, netVars,
                   contactVars, timerVars, auxVars>>
    /\ h_pc[h] = "read"
    /\ node_lock.writer = 0
    /\ node_lock' = Lock(0, node_lock.readers \cup {h})
    /\ h_pc' = [h_pc EXCEPT ![h] = "reading"]
    /\ UNCHANGED <<h_cmd, h_ret, h_peer_msgs, h_members, h_i, nodeState,
                   expired_queries, comm_sent, comm_cleaned>>

\* self.node.write().await completes: nobody holds the lock.
AcquireWriteOverReaders(h) ==
    /\ UNCHANGED <<cmdVars, queryVars, sendVars, elderVars, netVars,
                   contactVars, timerVars, auxVars>>
    /\ h_pc[h] = "write"
    /\ node_lock.writer = 0
    /\ node_lock' = Lock(h, node_lock.readers)
    /\ h_pc' = [h_pc EXCEPT ![h] = "writing"]
    /\ UNCHANGED <<h_cmd, h_ret, h_peer_msgs, h_members, h_i, nodeState,
                   expired_queries, comm_sent, comm_cleaned>>

AcquireWrite(h) ==
    /\ UNCHANGED <<cmdVars, queryVars, sendVars, elderVars, netVars,
                   contactVars, timerVars, auxVars>>
    /\ h_pc[h] = "write"
    /\ node_lock = Unlocked
    /\ node_lock' = Lock(h, {})
    /\ h_pc' = [h_pc EXCEPT ![h] = "writing"]
    /\ UNCHANGED <<h_cmd, h_ret, h_peer_msgs, h_members, h_i, nodeState,
                   expired_queries, comm_sent, comm_cleaned>>

\* CleanupPeerLinks: the members are read and the guard is dropped with
\* the block.
ReadMembers(h) ==
    /\ UNCHANGED <<cmdVars, queryVars, sendVars, elderVars, netVars,
                   contactVars, timerVars, auxVars>>
    /\ h_pc[h] = "reading"
    /\ h_cmd[h].kind = "CleanupPeerLinks"
    /\ h_members' = [h_members EXCEPT ![h] = nd_members]
    /\ node_lock' = Released(h)
    /\ h_pc' = [h_pc EXCEPT ![h] = "cleanup"]
    /\ UNCHANGED <<h_cmd, h_ret, h_peer_msgs, h_i, nodeState,
                   expired_queries, comm_sent, comm_cleaned>>

\* CleanupPeerLinks: self.comm.cleanup_peers(members).await; Ok(vec![]).
CleanupPeers(h) ==
    /\ UNCHANGED <<cmdVars, queryVars, sendVars, elderVars, netVars,
                   contactVars, timerVars, auxVars>>
    /\ h_pc[h] = "cleanup"
    /\ comm_cleaned' = [comm_cleaned EXCEPT ![h] = Append(@, h_members[h])]
    /\ h_ret' = [h_ret EXCEPT ![h] = HandlerResult("Ok", <<>>)]
    /\ h_pc' = [h_pc EXCEPT ![h] = "done"]
    /\ UNCHANGED <<node_lock, h_cmd, h_peer_msgs, h_members, h_i, nodeState,
                   expired_queries, comm_sent>>

\* SendMsg: into_wire_msgs under the read guard, which is dropped with the
\* block; an error of node.sign_msg ends the call.
IntoWireMsgsKeepsGuard(h, sign_ok) ==
    /\ UNCHANGED <<cmdVars, queryVars, sendVars, elderVars, netVars,
                   contactVars, timerVars, auxVars>>
    /\ h_pc[h] = "reading"
    /\ h_cmd[h].kind = "SendMsg"
    /\ IF sign_ok
       THEN /\ h_peer_msgs' = [h_peer_msgs EXCEPT ![h] =
                                  into_wire_msgs(nd_dst, h_cmd[h].peers)]
            /\ h_pc' = [h_pc EXCEPT ![h] = "send"]
            /\ UNCHANGED <<h_ret, node_lock>>
       ELSE /\ h_ret' = [h_ret EXCEPT ![h] = HandlerResult("Err", <<>>)]
            /\ h_pc' = [h_pc EXCEPT ![h] = "done"]
            /\ node_lock' = Released(h)
            /\ UNCHANGED h_peer_msgs
    /\ UNCHANGED <<h_cmd, h_members, h_i, nodeState, expired_queries,
                   comm_sent, comm_cleaned>>

IntoWireMsgs(h, sign_ok) ==
    /\ UNCHANGED <<cmdVars, queryVars, sendVars, elderVars, netVars,
                   contactVars, timerVars, auxVars>>
    /\ h_pc[h] = "reading"
    /\ h_cmd[h].kind = "SendMsg"
    /\ node_lock' = Released(h)
    /\ IF sign_ok
       THEN /\ h_peer_msgs' = [h_peer_msgs EXCEPT ![h] =
                                  into_wire_msgs(nd_dst, h_cmd[h].peers)]
            /\ h_pc' = [h_pc EXCEPT ![h] = "send"]
            /\ UNCHANGED h_ret
       ELSE /\ h_ret' = [h_ret EXCEPT ![h] = HandlerResult("Err", <<>>)]
            /\ h_pc' = [h_pc EXCEPT ![h] = "done"]
            /\ UNCHANGED h_peer_msgs
    /\ UNCHANGED <<h_cmd, h_members, h_i, nodeState, expired_queries,
                   comm_sent, comm_cleaned>>

\* SendMsg: join_all of comm.send(peer, msg) over peer_msgs, and the
\* cmds made of its results.
CommSend(h, results) ==
    /\ UNCHANGED <<cmdVars, queryVars, sendVars, elderVars, netVars,
                   contactVars, timerVars, auxVars>>
    /\ h_pc[h] = "send"
    /\ comm_sent' = [comm_sent EXCEPT ![h] =
                        [i \in 1..Len(h_peer_msgs[h]) |->
                            [peer |-> h_peer_msgs[h][i],
                             result |-> results[i]]]]
    /\ h_ret' = [h_ret EXCEPT ![h] =
                    HandlerResult("Ok",
                              FailedSendCmds(h_peer_msgs[h], results, 1))]
    /\ h_pc' = [h_pc EXCEPT ![h] = "done"]
    /\ UNCHANGED <<node_lock, h_cmd, h_peer_msgs, h_members, h_i, nodeState,
                   expired_queries>>
    /\ UNCHANGED comm_cleaned

\* HandlePeerFailedSend: node.handle_failed_send(&peer.addr()) under the
\* write guard; Ok(vec![]).
HandleFailedSend(h) ==
    /\ UNCHANGED <<cmdVars, queryVars, sendVars, elderVars, netVars,
                   contactVars, timerVars, auxVars>>
    /\ h_pc[h] = "writing"
    /\ h_cmd[h].kind = "HandlePeerFailedSend"
    /\ nd_issues' = handle_failed_send(nd_members, nd_is_elder, nd_issues,
                                       h_cmd[h].peer.addr)
    /\ node_lock' = Released(h)
    /\ h_ret' = [h_ret EXCEPT ![h] = HandlerResult("Ok", <<>>)]
    /\ h_pc' = [h_pc EXCEPT ![h] = "done"]
    /\ UNCHANGED <<h_cmd, h_peer_msgs, h_members, h_i, nd_members, nd_elders,
                   nd_is_elder, nd_dst, pending_data_to_replicate_to_peers,
                   pending_data_queries, expired_queries, comm_sent,
                   comm_cleaned>>

\* EnqueueDataForReplication: one pass of `for data in data_batch` under
\* the write guard taken in the loop body; Ok(vec![]) after the last.
EnqueueItem(h) ==
    /\ UNCHANGED <<cmdVars, queryVars, sendVars, elderVars, netVars,
                   contactVars, timerVars, auxVars>>
    /\ h_pc[h] = "writing"
    /\ h_cmd[h].kind = "EnqueueDataForReplication"
    /\ pending_data_to_replicate_to_peers' =
          enqueue(pending_data_to_replicate_to_peers,
                  h_cmd[h].data[h_i[h] + 1], h_cmd[h].peer)
    /\ node_lock' = Released(h)
    /\ h_i' = [h_i EXCEPT ![h] = @ + 1]
    /\ IF h_i[h] + 1 = Len(h_cmd[h].data)
       THEN /\ h_ret' = [h_ret EXCEPT ![h] = HandlerResult("Ok", <<>>)]
            /\ h_pc' = [h_pc EXCEPT ![h] = "done"]
       ELSE /\ h_pc' = [h_pc EXCEPT ![h] = "write"]
            /\ UNCHANGED h_ret
    /\ UNCHANGED <<h_cmd, h_peer_msgs, h_members, nd_members, nd_elders,
                   nd_is_elder, nd_dst, nd_issues, pending_data_queries,
                   expired_queries, comm_sent, comm_cleaned>>

\* SpecReplication: two EnqueueDataForReplication are processed.
NextReplication ==
    \/ \E h \in Handlers : \E r \in Peers : \E data_batch \in Batches :
          Begin(h, EnqueueDataForReplication(PeerOf(r), data_batch))
    \/ \E h \in Handlers : AcquireWrite(h)
    \/ \E h \in Handlers : EnqueueItem(h)

\* ProposeVoteNodesOffline: node.cast_offline_proposals(&names) under the
\* write guard.
CastOfflineProposals(h, outcome) ==
    /\ UNCHANGED <<cmdVars, queryVars, sendVars, elderVars, netVars,
                   contactVars, timerVars, auxVars>>
    /\ h_pc[h] = "writing"
    /\ h_cmd[h].kind = "ProposeVoteNodesOffline"
    /\ h_ret' = [h_ret EXCEPT ![h] =
                    cast_offline_proposals(nd_members, nd_elders,
                                           h_cmd[h].peers, outcome)]
    /\ node_lock' = Released(h)
    /\ h_pc' = [h_pc EXCEPT ![h] = "done"]
    /\ UNCHANGED <<h_cmd, h_peer_msgs, h_members, h_i, nodeState,
                   expired_queries, comm_sent, comm_cleaned>>

\* SpecOffline: a ProposeVoteNodesOffline is processed.
NextOffline ==
    \/ \E names \in SUBSET Peers : Begin(1, ProposeVoteNodesOffline(names))
    \/ AcquireWrite(1)
    \/ \E outcome \in [h_cmd[1].peers \cap nd_members -> ProposalOutcomes] :
          CastOfflineProposals(1, outcome)

\* AddToPendingQueries under the write guard; Ok(vec![]).
AddToPending(h) ==
    /\ UNCHANGED <<cmdVars, queryVars, sendVars, elderVars, netVars,
                   contactVars, timerVars, auxVars>>
    /\ h_pc[h] = "writing"
    /\ h_cmd[h].kind = "AddToPendingQueries"
    /\ pending_data_queries' =
          add_to_pending_queries(pending_data_queries, expired_queries,
                                 QueryOperationId, h_cmd[h].peer,
                                 h_cmd[h].target)
    /\ expired_queries' = {}
    /\ node_lock' = Released(h)
    /\ h_ret' = [h_ret EXCEPT ![h] = HandlerResult("Ok", <<>>)]
    /\ h_pc' = [h_pc EXCEPT ![h] = "done"]
    /\ UNCHANGED <<h_cmd, h_peer_msgs, h_members, h_i, nd_members, nd_elders,
                   nd_is_elder, nd_dst, nd_issues,
                   pending_data_to_replicate_to_peers, comm_sent,
                   comm_cleaned>>

\* Time passes: an entry of pending_data_queries reaches its expiry.
Expire(key) ==
    /\ UNCHANGED <<cmdVars, queryVars, sendVars, elderVars, netVars,
                   contactVars, timerVars, auxVars>>
    /\ key \in DOMAIN pending_data_queries \ expired_queries
    /\ expired_queries' = expired_queries \cup {key}
    /\ UNCHANGED <<node_lock, h_pc, h_cmd, h_ret, h_peer_msgs, h_members,
                   h_i, nodeState, comm_sent, comm_cleaned>>

\* SpecPendingQueries: two AddToPendingQueries are processed.
NextPendingQueries ==
    \/ \E h \in Handlers : \E origin, target_adult \in Peers :
          Begin(h, AddToPendingQueries(PeerOf(origin), target_adult))
    \/ \E h \in Handlers : AcquireWrite(h)
    \/ \E h \in Handlers : AddToPending(h)
    \/ \E key \in DOMAIN pending_data_queries : Expire(key)

\* What node.validate_msg, node.handle_valid_service_msg and
\* node.handle_dkg_timeout return: cmds derived from the message, or an
\* error.
DerivedResults ==
    {HandlerResult("Ok", <<>>), HandlerResult("Ok", <<SendMsg(Peers)>>),
     HandlerResult("Err", <<>>)}

\* ValidateMsg, HandleValidServiceMsg, HandleDkgTimeout: a method of Node
\* is called on the read guard, which is dropped when the arm returns its
\* result.
ReadOnlyHandler(h, result) ==
    /\ UNCHANGED <<cmdVars, queryVars, sendVars, elderVars, netVars,
                   contactVars, timerVars, auxVars>>
    /\ h_pc[h] = "reading"
    /\ h_cmd[h].kind \in
          {"ValidateMsg", "HandleValidServiceMsg", "HandleDkgTimeout"}
    /\ h_ret' = [h_ret EXCEPT ![h] = result]
    /\ node_lock' = Released(h)
    /\ h_pc' = [h_pc EXCEPT ![h] = "done"]
    /\ UNCHANGED <<h_cmd, h_peer_msgs, h_members, h_i, nodeState,
                   expired_queries, comm_sent, comm_cleaned>>

\* The Cmds of SpecDispatcher: one of every modelled variant, about peer 1,
\* and every data batch.
DispatcherCmds ==
    {CleanupPeerLinks, SendMsg({1}), ValidateMsg, HandleValidServiceMsg,
     HandleDkgTimeout(1), HandlePeerFailedSend(PeerOf(1)),
     ProposeVoteNodesOffline({1}), AddToPendingQueries(PeerOf(1), 1)}
    \cup {EnqueueDataForReplication(PeerOf(1), b) : b \in Batches}

\* The steps of the process_cmd call h.
HandlerStep(h) ==
    \/ \E cmd \in DispatcherCmds : Begin(h, cmd)
    \/ AcquireRead(h)
    \/ AcquireWrite(h)
    \/ ReadMembers(h)
    \/ CleanupPeers(h)
    \/ \E sign_ok \in BOOLEAN : IntoWireMsgs(h, sign_ok)
    \/ \E results \in [1..Len(h_peer_msgs[h]) -> CommResults] :
          CommSend(h, results)
    \/ \E result \in DerivedResults : ReadOnlyHandler(h, result)
    \/ HandleFailedSend(h)
    \/ EnqueueItem(h)
    \/ \E outcome \in [h_cmd[h].peers \cap nd_members -> ProposalOutcomes] :
          CastOfflineProposals(h, outcome)
    \/ AddToPending(h)

\* SpecDispatcher: two Cmds are processed.
NextDispatcher == \E h \in Handlers : HandlerStep(h)

\* SpecSendMsgCmd: a SendMsg is processed while a CleanupPeerLinks is.
NextSendMsgCmd ==
    \/ \E recipients \in SUBSET Peers : Begin(1, SendMsg(recipients))
    \/ Begin(2, CleanupPeerLinks)
    \/ \E h \in Handlers : AcquireRead(h)
    \/ \E sign_ok \in BOOLEAN : IntoWireMsgs(1, sign_ok)
    \/ \E results \in [1..Len(h_peer_msgs[1]) -> CommResults] :
          CommSend(1, results)
    \/ ReadMembers(2)
    \/ CleanupPeers(2)

\* SpecFailedSend: two HandlePeerFailedSend are processed.
NextFailedSend ==
    \/ \E h \in Handlers : \E name, addr \in Peers :
          Begin(h, HandlePeerFailedSend(Peer(name, addr)))
    \/ \E h \in Handlers : AcquireWrite(h)
    \/ \E h \in Handlers : HandleFailedSend(h)

\* No process_cmd call exists.
IdleDispatcher ==
    /\ node_lock = Unlocked
    /\ h_pc = [h \in Handlers |-> "none"]
    /\ h_cmd = [h \in Handlers |-> NoCmd]
    /\ h_ret = [h \in Handlers |-> HandlerRunning]
    /\ h_peer_msgs = [h \in Handlers |-> <<>>]
    /\ h_members = [h \in Handlers |-> {}]
    /\ h_i = [h \in Handlers |-> 0]
    /\ nd_members = {}
    /\ nd_elders = {}
    /\ nd_is_elder = FALSE
    /\ nd_dst = {}
    /\ nd_issues = [n \in Peers |-> 0]
    /\ pending_data_to_replicate_to_peers = <<>>
    /\ pending_data_queries = <<>>
    /\ expired_queries = {}
    /\ comm_sent = [h \in Handlers |-> <<>>]
    /\ comm_cleaned = [h \in Handlers |-> <<>>]

-----------------------------------------------------------------------------
\* ChunkStorage (sn_node/src/storage/chunks.rs) over a FileStore, which
\* keeps one file per data address and accounts for the space used.

\* The content of a chunk stands for the chunk; its length is its value.
Chunks == 1..MaxChunks

\* Chunk::value().len()
ChunkLen(chunk) == chunk

\* DataCmd::address / Chunk::address: the name is derived from the content.
ChunkAddress(chunk) == <<"Chunk", chunk>>

\* Outcomes of an operation on the file system.
IoOutcomes == {"Ok", "Io"}

\* Result of a ChunkStorage call; chunk is 0 when none is carried.
ChunkResult(op, address, result, chunk) ==
    [op |-> op, address |-> address, result |-> result, chunk |-> chunk]

NoChunkCall == ChunkResult("none", <<>>, "none", 0)

\* FileStore::data_file_exists
data_file_exists(files, address) ==
    \E chunk \in files : ChunkAddress(chunk) = address

\* UsedSpace: the bytes the files take.
RECURSIVE used_space(_)
used_space(files) ==
    IF files = {} THEN 0
    ELSE LET chunk == CHOOSE c \in files : TRUE
         IN  ChunkLen(chunk) + used_space(files \ {chunk})

\* FileStore::can_add
can_add(files, capacity, size) == used_space(files) + size <= capacity

\* FileStore::write_data: the file at the address of the data holds it.
write_data(files, chunk) ==
    {c \in files : ChunkAddress(c) /= ChunkAddress(chunk)} \cup {chunk}

\* FileStore::delete_data
delete_data(files, address) == {c \in files : ChunkAddress(c) /= address}

\* ChunkStorage::new over a store left by earlier runs of the node.
InitChunks ==
    /\ cs_files \in SUBSET Chunks
    /\ cs_capacity \in 0..MaxCapacity
    /\ used_space(cs_files) <= cs_capacity
    /\ cs_existed = FALSE
    /\ cs_ret = NoChunkCall

\* ChunkStorage::store(DataCmd::StoreChunk(chunk)); io is the outcome of
\* its file operations.
ChunkStore(chunk, io) ==
    /\ UNCHANGED <<cmdVars, queryVars, sendVars, elderVars, netVars,
                   contactVars, timerVars, dispVars, replicaVars,
                   quorumVars>>
    /\ LET address == ChunkAddress(chunk)
           exists == data_file_exists(cs_files, address)
           result == IF io = "Io" THEN "Io"
                     ELSE IF exists THEN "DataExists"
                     ELSE IF ~can_add(cs_files, cs_capacity, ChunkLen(chunk))
                     THEN "NotEnoughSpace"
                     ELSE "Ok"
       IN  /\ cs_existed' = exists
           /\ cs_files' = IF result = "Ok" THEN write_data(cs_files, chunk)
                          ELSE cs_files
           /\ cs_ret' = ChunkResult("store", address, result, 0)
    /\ UNCHANGED cs_capacity

\* ChunkStorage::get_chunk: the chunk read, ChunkNotFound for an
\* io::ErrorKind::NotFound, any other error as it is.
GetChunk(chunk, io) ==
    /\ UNCHANGED <<cmdVars, queryVars, sendVars, elderVars, netVars,
                   contactVars, timerVars, dispVars, replicaVars,
                   quorumVars>>
    /\ LET address == ChunkAddress(chunk)
           found == {c \in cs_files : ChunkAddress(c) = address}
       IN  cs_ret' =
              IF found = {} THEN ChunkResult("get_chunk", address,
                                             "ChunkNotFound", 0)
              ELSE IF io = "Io" THEN ChunkResult("get_chunk", address, "Io", 0)
              ELSE ChunkResult("get_chunk", address, "Ok",
                               CHOOSE c \in found : TRUE)
    /\ UNCHANGED <<cs_files, cs_capacity, cs_existed>>

\* ChunkStorage::remove_chunk
RemoveChunk(chunk, io) ==
    /\ UNCHANGED <<cmdVars, queryVars, sendVars, elderVars, netVars,
                   contactVars, timerVars, dispVars, replicaVars,
                   quorumVars>>
    /\ LET address == ChunkAddress(chunk)
       IN  /\ cs_files' = IF io = "Ok" THEN delete_data(cs_files, address)
                          ELSE cs_files
           /\ cs_ret' = ChunkResult("remove_chunk", address, io, 0)
    /\ UNCHANGED <<cs_capacity, cs_existed>>

NextChunks ==
    \/ \E chunk \in Chunks : \E io \in IoOutcomes : ChunkStore(chunk, io)
    \/ \E chunk \in Chunks : \E io \in IoOutcomes : GetChunk(chunk, io)
    \/ \E chunk \in Chunks : \E io \in IoOutcomes : RemoveChunk(chunk, io)

\* No ChunkStorage exists.
IdleChunks ==
    /\ cs_files = {}
    /\ cs_capacity = 0
    /\ cs_existed = FALSE
    /\ cs_ret = NoChunkCall

-----------------------------------------------------------------------------
\* ReplicaManager (node/elder_duties/key_section/transfers/
\* replica_manager.rs) over its TransferStore and its Replica.

\* ReplicaEvents; an event stands for the stream of its account too.
Events == 1..MaxEvents

\* The TransferPropagated of replica.genesis.
GenesisEvent == 0

\* events: &[ReplicaEvent] as passed to initiate.
EventLists == UNION {[1..n -> Events] : n \in 0..MaxEvents}

\* The events of a Vec<ReplicaEvent>.
EventsOf(seq) == {seq[i] : i \in 1..Len(seq)}

\* TransferStore::try_append
try_append(store, event) == Append(store, event)

\* TransferStore::init
store_init(store, events) == store \o events

\* TransferStore::drop: the streams of the accounts are dropped.
store_drop(store, accounts) ==
    SelectSeq(store, LAMBDA event : event \notin accounts)

\* Replica::from_history
from_history(events) == EventsOf(events)

\* Replica::apply
apply(replica, event) == replica \cup {event}

\* events.iter().cloned().filter(|e| !existing_events.contains(e))
not_existing(events, existing_events) ==
    SelectSeq(events, LAMBDA event : event \notin EventsOf(existing_events))

\* ReplicaManager::check_init_status
check_init_status_passes(initiating) == "Ok"

check_init_status(initiating) ==
    IF initiating THEN "InvalidOperation" ELSE "Ok"

\* The last call, its NdResult and whether the manager was initiating
\* when it was made.
ReplicaResult(op, result, was_initiating) ==
    [op |-> op, result |-> result, was_initiating |-> was_initiating]

NoReplicaCall == ReplicaResult("none", "none", TRUE)

\* validate, register and receive_propagated
ReplicaCmds == {"validate", "register", "receive_propagated"}

\* What the Replica and the store make of such a cmd: an event that is
\* persisted, no event, an error of the Replica (or of the serialization
\* before it), a failing try_append, a failing apply.
CmdOutcomes == {"Some", "None", "Err", "AppendFails", "ApplyFails"}

DropOutcomes == {"Ok", "DropFails", "LoadFails", "HistoryErr"}

UpdateOutcomes == {"Ok", "LoadFails", "HistoryErr"}

GenesisOutcomes ==
    {"Ok", "GetGenesisErr", "GenesisNone", "AppendFails", "ApplyFails"}

SyncOutcomes == {"Ok", "LoadFails", "InitFails", "HistoryErr"}

\* ReplicaManager::new: initiating, a Replica of no history, and a store
\* that may hold what an earlier run persisted.
InitReplica ==
    /\ rm_initiating = TRUE
    /\ rm_store \in {<<>>} \cup {<<event>> : event \in Events}
    /\ rm_replica = {}
    /\ rm_calls = 0
    /\ rm_inited = FALSE
    /\ rm_ret = NoReplicaCall

\* ReplicaManager::validate, register, receive_propagated.
RmCmd(op, outcome, event) ==
    /\ UNCHANGED <<cmdVars, queryVars, sendVars, elderVars, netVars,
                   contactVars, timerVars, dispVars, chunkVars,
                   quorumVars>>
    /\ rm_calls < MaxCalls
    /\ rm_calls' = rm_calls + 1
    /\ LET status == check_init_status(rm_initiating)
           result == IF status /= "Ok" THEN status
                     ELSE IF outcome = "Some" THEN "Ok"
                     ELSE IF outcome = "None" THEN "OkNone"
                     ELSE IF outcome = "AppendFails" THEN "NetworkOther"
                     ELSE "ReplicaError"
       IN  /\ rm_store' =
                 IF status = "Ok" /\ outcome \in {"Some", "ApplyFails"}
                 THEN try_append(rm_store, event) ELSE rm_store
           /\ rm_replica' =
                 IF status = "Ok" /\ outcome = "Some"
                 THEN apply(rm_replica, event) ELSE rm_replica
           /\ rm_ret' = ReplicaResult(op, result, rm_initiating)
    /\ UNCHANGED <<rm_initiating, rm_inited>>

\* ReplicaManager::drop_accounts, with the update_replica_keys that ends
\* it.
RmDropAccounts(accounts, outcome) ==
    /\ UNCHANGED <<cmdVars, queryVars, sendVars, elderVars, netVars,
                   contactVars, timerVars, dispVars, chunkVars,
                   quorumVars>>
    /\ rm_calls < MaxCalls
    /\ rm_calls' = rm_calls + 1
    /\ LET status == check_init_status(rm_initiating)
           dropped == status = "Ok" /\ outcome /= "DropFails"
           kept == store_drop(rm_store, accounts)
           result == IF status /= "Ok" THEN status
                     ELSE IF outcome = "DropFails" THEN "NetworkOther"
                     ELSE IF outcome = "LoadFails" THEN "InvalidOperation"
                     ELSE IF outcome = "HistoryErr" THEN "ReplicaError"
                     ELSE "Ok"
       IN  /\ rm_store' = IF dropped THEN kept ELSE rm_store
           /\ rm_replica' = IF dropped /\ outcome = "Ok"
                            THEN from_history(kept) ELSE rm_replica
           /\ rm_ret' = ReplicaResult("drop_accounts", result, rm_initiating)
    /\ UNCHANGED <<rm_initiating, rm_inited>>

\* ReplicaManager::update_replica_keys on churn.
RmUpdateReplicaKeys(outcome) ==
    /\ UNCHANGED <<cmdVars, queryVars, sendVars, elderVars, netVars,
                   contactVars, timerVars, dispVars, chunkVars,
                   quorumVars>>
    /\ rm_calls < MaxCalls
    /\ rm_calls' = rm_calls + 1
    /\ rm_replica' = IF outcome /= "Ok" THEN rm_replica
                     ELSE IF rm_initiating THEN from_history(<<>>)
                     ELSE from_history(rm_store)
    /\ rm_ret' = ReplicaResult("update_replica_keys",
                               IF outcome = "Ok" THEN "Ok"
                               ELSE IF outcome = "LoadFails"
                               THEN "InvalidOperation" ELSE "ReplicaError",
                               rm_initiating)
    /\ UNCHANGED <<rm_initiating, rm_store, rm_inited>>

\* ReplicaManager::initiate(&[]): the genesis of the first node.
RmInitiateGenesis(outcome) ==
    /\ UNCHANGED <<cmdVars, queryVars, sendVars, elderVars, netVars,
                   contactVars, timerVars, dispVars, chunkVars,
                   quorumVars>>
    /\ rm_calls < MaxCalls
    /\ rm_calls' = rm_calls + 1
    /\ LET result == IF ~rm_initiating THEN "InvalidOperation"
                     ELSE IF outcome = "GetGenesisErr" THEN "ReplicaError"
                     ELSE IF outcome = "GenesisNone" THEN "InvalidOperation"
                     ELSE IF outcome = "AppendFails" THEN "NetworkOther"
                     ELSE IF outcome = "ApplyFails" THEN "ReplicaError"
                     ELSE "Ok"
       IN  /\ rm_store' =
                 IF rm_initiating /\ outcome \in {"Ok", "ApplyFails"}
                 THEN try_append(rm_store, GenesisEvent) ELSE rm_store
           /\ rm_replica' =
                 IF rm_initiating /\ outcome = "Ok"
                 THEN apply(rm_replica, GenesisEvent) ELSE rm_replica
           /\ rm_inited' = (rm_inited \/ result = "Ok")
           /\ rm_ret' = ReplicaResult("initiate", result, rm_initiating)
    /\ UNCHANGED rm_initiating

\* ReplicaManager::initiate(events), events not empty: the events of the
\* other Replicas.
RmInitiate(events, outcome) ==
    /\ UNCHANGED <<cmdVars, queryVars, sendVars, elderVars, netVars,
                   contactVars, timerVars, dispVars, chunkVars,
                   quorumVars>>
    /\ events /= <<>>
    /\ rm_calls < MaxCalls
    /\ rm_calls' = rm_calls + 1
    /\ LET new_events == not_existing(events, rm_store)
           stored == rm_initiating /\ outcome \in {"Ok", "HistoryErr"}
           result == IF ~rm_initiating THEN "InvalidOperation"
                     ELSE IF outcome \in {"LoadFails", "InitFails"}
                     THEN "NetworkOther"
                     ELSE IF outcome = "HistoryErr" THEN "ReplicaError"
                     ELSE "Ok"
       IN  /\ rm_store' = IF stored THEN store_init(rm_store, new_events)
                          ELSE rm_store
           /\ rm_replica' = IF result = "Ok" THEN from_history(new_events)
                            ELSE rm_replica
           /\ rm_initiating' = IF result = "Ok" THEN FALSE
                               ELSE rm_initiating
           /\ rm_inited' = (rm_inited \/ result = "Ok")
           /\ rm_ret' = ReplicaResult("initiate", result, rm_initiating)

NextReplica ==
    \/ \E op \in ReplicaCmds : \E outcome \in CmdOutcomes :
          \E event \in Events : RmCmd(op, outcome, event)
    \/ \E accounts \in SUBSET (Events \cup {GenesisEvent}) :
          \E outcome \in DropOutcomes : RmDropAccounts(accounts, outcome)
    \/ \E outcome \in UpdateOutcomes : RmUpdateReplicaKeys(outcome)
    \/ \E outcome \in GenesisOutcomes : RmInitiateGenesis(outcome)
    \/ \E events \in EventLists : \E outcome \in SyncOutcomes :
          RmInitiate(events, outcome)

\* No ReplicaManager exists.
IdleReplica ==
    /\ rm_initiating = TRUE
    /\ rm_store = <<>>
    /\ rm_replica = {}
    /\ rm_calls = MaxCalls
    /\ rm_inited = FALSE
    /\ rm_ret = NoReplicaCall

-----------------------------------------------------------------------------
\* EldersInfo::is_quorum and quorum_count (section/elders_info.rs).

\* The crate's constants: a quorum is more than 2/3 of the elders.
QUORUM_NUMERATOR == 2

QUORUM_DENOMINATOR == 3

\* PublicIds, which stand for their names too.
Ids == 1..MaxIds

\* pub const fn quorum_count(elder_size: usize) -> usize
quorum_count(elder_size) ==
    1 + (elder_size * QUORUM_NUMERATOR) \div QUORUM_DENOMINATOR

\* EldersInfo::contains_elder
contains_elder(elders, id) == id \in elders

\* EldersInfo::num_elders
num_elders(elders) == Cardinality(elders)

\* EldersInfo::is_quorum
is_quorum_counting_all(elders, proofs) ==
    Cardinality(proofs) >= quorum_count(num_elders(elders))

is_quorum(elders, proofs) ==
    Cardinality({id \in proofs : contains_elder(elders, id)})
        >= quorum_count(num_elders(elders))

\* bool of is_quorum; "none" before the call.
QuorumResult(called, value) == [called |-> called, value |-> value]

\* An EldersInfo of any elders and a ProofSet that is still empty.
InitQuorum ==
    /\ ei_elders \in SUBSET Ids
    /\ ei_proofs = {}
    /\ ei_ret = QuorumResult(FALSE, FALSE)

\* A proof signed by id is added to the ProofSet.
AddProof(id) ==
    /\ UNCHANGED <<cmdVars, queryVars, sendVars, elderVars, netVars,
                   contactVars, timerVars, dispVars, chunkVars,
                   replicaVars>>
    /\ ~ei_ret.called
    /\ id \notin ei_proofs
    /\ ei_proofs' = ei_proofs \cup {id}
    /\ UNCHANGED <<ei_elders, ei_ret>>

\* self.is_quorum(&proofs)
IsQuorum ==
    /\ UNCHANGED <<cmdVars, queryVars, sendVars, elderVars, netVars,
                   contactVars, timerVars, dispVars, chunkVars,
                   replicaVars>>
    /\ ~ei_ret.called
    /\ ei_ret' = QuorumResult(TRUE, is_quorum(ei_elders, ei_proofs))
    /\ UNCHANGED <<ei_elders, ei_proofs>>

NextQuorum ==
    \/ \E id \in Ids : AddProof(id)
    \/ IsQuorum

\* No EldersInfo is asked.
IdleQuorum ==
    /\ ei_elders = {}
    /\ ei_proofs = {}
    /\ ei_ret = QuorumResult(TRUE, FALSE)

IdleAux == IdleChunks /\ IdleReplica /\ IdleQuorum

IdleNode == IdleTimers /\ IdleDispatcher /\ IdleAux

-----------------------------------------------------------------------------
\* The specifications.

\* No operation other than send_cmd and send_query runs.
IdleRest == IdleSendMsg /\ IdleElders /\ IdleContact /\ IdleNode

\* No send_query call exists (SpecCmd).
IdleQuery ==
    /\ calls = {}
    /\ q_pc = <<>>
    /\ q_query = <<>>
    /\ q_elders_len = <<>>
    /\ pending_queries = <<>>
    /\ q_chan = <<>>
    /\ q_answered = <<>>
    /\ discarded_responses = <<>>
    /\ error_response = <<>>
    /\ response = <<>>
    /\ q_ret = <<>>
    /\ q_consumed = <<>>
    /\ bg_tasks_done = <<>>
    /\ bg_successful_sends = <<>>
    /\ bg_last_error = <<>>
    /\ bg_send_res = <<>>

\* No send_cmd call exists (SpecQuery, SpecQueries).
IdleCmd ==
    /\ cmd_pc = "idle"
    /\ elders_len = 0
    /\ cmd_ack_wait = 0
    /\ pending_cmds = {}
    /\ cmd_chan = <<>>
    /\ tasks_done = 0
    /\ successful_sends = 0
    /\ last_error = None
    /\ acked = 0
    /\ received_ack = 0
    /\ received_err = 0
    /\ attempts = 0
    /\ cmd_error = None
    /\ cmd_ret = CmdRunning
    /\ cmd_consumed = <<>>
    /\ cmd_polls = 0

InitOneQuery ==
    IdleCmd /\ IdleRest /\ InitQueryCalls(1, MaxQueryElders, QueryVariants)

\* Two concurrent calls of the same register query.
InitTwoQueries ==
    IdleCmd /\ IdleRest
            /\ InitQueryCalls(2, MaxConcurrentElders, {"GetRegister"})

SpecQuery == InitOneQuery /\ [][NextQuery]_vars

SpecQueries == InitTwoQueries /\ [][NextQuery]_vars

\* The runtime keeps polling the call and the tasks of its fan-out, and an
\* elder that got the query answers it.
SpecQueryFair ==
    /\ InitOneQuery
    /\ [][NextQuery]_vars
    /\ \A q \in {1} :
          /\ WF_vars(QLookup(q))
          /\ WF_vars(QInsert(q))
          /\ WF_vars(\E ok \in BOOLEAN : QSendTask(q, ok))
          /\ WF_vars(QSendJoin(q))
          /\ WF_vars(\E r \in ResponsesTo(q_query[q]) : QRespond(q, r))
          /\ WF_vars(QRecv(q))
          /\ WF_vars(QCheck(q))
          /\ WF_vars(QRemove(q))

InitCmdOnly == InitCmd /\ IdleQuery /\ IdleRest

InitSendMsgOnly ==
    IdleCmd /\ IdleQuery /\ IdleElders /\ IdleContact /\ IdleNode
            /\ InitSendMsg

SpecSendMsg == InitSendMsgOnly /\ [][NextSendMsg]_vars

InitEldersOnly ==
    IdleCmd /\ IdleQuery /\ IdleSendMsg /\ IdleContact /\ IdleNode
            /\ InitElders

SpecElders == InitEldersOnly /\ [][NextElders]_vars

InitContactOnly ==
    IdleCmd /\ IdleQuery /\ IdleSendMsg /\ IdleElders /\ IdleNode
            /\ InitContact

SpecContact == InitContactOnly /\ [][NextContact]_vars

SpecCmd == InitCmdOnly /\ [][NextCmd]_vars

\* No operation of the client session runs.
IdleClient ==
    IdleCmd /\ IdleQuery /\ IdleSendMsg /\ IdleElders /\ IdleContact

InitTimersOnly == IdleClient /\ IdleAux /\ IdleDispatcher /\ InitTimers

InitSendMsgCmd ==
    IdleClient /\ IdleAux /\ IdleTimers
               /\ InitDispatcher({Peers}, {{}}, {TRUE}, SUBSET Peers)

SpecSendMsgCmd == InitSendMsgCmd /\ [][NextSendMsgCmd]_vars

InitFailedSend ==
    IdleClient /\ IdleAux /\ IdleTimers
               /\ InitDispatcher(SUBSET Peers, {{}}, BOOLEAN, {{}})

SpecFailedSend == InitFailedSend /\ [][NextFailedSend]_vars

InitReplication ==
    IdleClient /\ IdleAux /\ IdleTimers
               /\ InitDispatcher({Peers}, {{}}, {TRUE}, {{}})

SpecReplication == InitReplication /\ [][NextReplication]_vars

InitDispatcherOnly ==
    IdleClient /\ IdleAux /\ IdleTimers
               /\ InitDispatcher({Peers}, {Peers}, {TRUE}, {Peers})

SpecDispatcher == InitDispatcherOnly /\ [][NextDispatcher]_vars

\* The runtime keeps polling a process_cmd call that can proceed.
SpecDispatcherFair ==
    /\ InitDispatcherOnly
    /\ [][NextDispatcher]_vars
    /\ \A h \in Handlers : WF_vars(HandlerStep(h) /\ h_pc[h] /= "idle")

\* One of: an elder lookup, a make_contact_with_nodes call, a Dispatcher
\* that is given a SendMsg and a CleanupPeerLinks.
InitLocks ==
    /\ IdleCmd /\ IdleQuery /\ IdleSendMsg /\ IdleTimers /\ IdleAux
    /\ \/ InitElders /\ IdleContact /\ IdleDispatcher
       \/ IdleElders /\ InitContact /\ IdleDispatcher
       \/ /\ IdleElders /\ IdleContact
          /\ InitDispatcher({Peers}, {{}}, {TRUE}, SUBSET Peers)

NextLocks == NextElders \/ NextContact \/ NextSendMsgCmd

SpecLocks == InitLocks /\ [][NextLocks]_vars

InitChunksOnly ==
    /\ IdleClient /\ IdleTimers /\ IdleDispatcher
    /\ InitChunks /\ IdleReplica /\ IdleQuorum

InitReplicaOnly ==
    /\ IdleClient /\ IdleTimers /\ IdleDispatcher
    /\ IdleChunks /\ InitReplica /\ IdleQuorum

InitQuorumOnly ==
    /\ IdleClient /\ IdleTimers /\ IdleDispatcher
    /\ IdleChunks /\ IdleReplica /\ InitQuorum

SpecQuorum == InitQuorumOnly /\ [][NextQuorum]_vars

SpecReplica == InitReplicaOnly /\ [][NextReplica]_vars

SpecChunks == InitChunksOnly /\ [][NextChunks]_vars

InitPendingQueries ==
    IdleClient /\ IdleAux /\ IdleTimers
               /\ InitDispatcher({Peers}, {{}}, {TRUE}, {{}})

SpecPendingQueries == InitPendingQueries /\ [][NextPendingQueries]_vars

\* The members of a section and those of them that are its elders.
InitOffline ==
    /\ IdleClient /\ IdleAux /\ IdleTimers
    /\ InitDispatcher(SUBSET Peers, SUBSET Peers, {TRUE}, {{}})
    /\ nd_elders \subseteq nd_members

SpecOffline == InitOffline /\ [][NextOffline]_vars

SpecTimers == InitTimersOnly /\ [][NextTimers]_vars

\* The sleep of a timer in its select! completes as time passes, and the
\* runtime polls a timer that has a ready branch.
SpecTimersFair ==
    /\ InitTimersOnly
    /\ [][NextTimers]_vars
    /\ \A t \in Tokens :
          /\ WF_vars(SleepElapses(t))
          /\ WF_vars(\E branch \in {"sleep", "changed"} :
                        TimerSelect(t, branch))

-----------------------------------------------------------------------------
\* Properties of send_cmd, stated for SpecCmd

\* floor(2n/3)+1 of the elders the cmd was fanned out to
Supermajority == (2 * elders_len) \div 3 + 1

\* max(200, cmd_ack_wait_ms / 50)
AckWaitCap ==
    IF cmd_ack_wait \div 50 > 200 THEN cmd_ack_wait \div 50 ELSE 200

\* Number of consumed CmdResponses equal to r.
Counted(r) ==
    Cardinality({i \in 1..Len(cmd_consumed) : cmd_consumed[i] = r})

CountedErrors ==
    Cardinality({i \in 1..Len(cmd_consumed) : cmd_consumed[i] \in ErrorKinds})

C2_RemovedOnEveryReturn ==
    cmd_pc = "done" => CmdMsgId \notin pending_cmds

\* C3 (as claimed): send_cmd returns Ok if and only if it received
\* floor(2n/3)+1 acks.
C3_OkIffSupermajorityAcks ==
    cmd_pc = "done" =>
        (cmd_ret.tag = "Ok" <=> Counted(None) >= Supermajority)

\* C3 (amended): send_cmd returns as soon as it has counted floor(2n/3)+1
\* acks, and it returns Ok if and only if it counted floor(2n/3)+1 acks or
\* the ack-wait loop used up its max(200, cmd_ack_wait_ms/50) attempts.
C3_OkIffAcksOrExhausted ==
    /\ received_ack = Counted(None)
    /\ cmd_pc = "poll" => Counted(None) < Supermajority
    /\ cmd_pc = "done" =>
          (cmd_ret.tag = "Ok" <=>
              (Counted(None) >= Supermajority \/ attempts >= AckWaitCap))

C3_Witness ==
    /\ cmd_pc = "done"
    /\ cmd_ret.tag = "Ok"
    /\ elders_len = 4
    /\ Counted(None) = 3
    /\ CountedErrors = 1
    /\ attempts < AckWaitCap

DeliveredToCmd == cmd_consumed \o cmd_chan

DeliveredAcks ==
    Cardinality({i \in 1..Len(DeliveredToCmd) : DeliveredToCmd[i] = None})

DeliveredErrors ==
    Cardinality({i \in 1..Len(DeliveredToCmd) :
                    DeliveredToCmd[i] \in ErrorKinds})

\* Had the responses delivered to the call arrived errors first, at the
\* same moments, the loop would have counted floor(2n/3)+1 errors in the
\* iterations in which it took a response, and returned ErrorCmd.
ErrorCmdInAnotherOrder ==
    DeliveredErrors >= Supermajority /\ Len(cmd_consumed) >= Supermajority

\* C37 (as claimed): for the responses to a cmd, at most one per elder and
\* all delivered before the ack-wait loop is exhausted, acks and errors
\* never both reach floor(2n/3)+1, and whether send_cmd returns Ok or
\* ErrorCmd does not depend on the order in which they arrive: a call
\* that returned Ok would not have returned ErrorCmd for another order of
\* the same responses.
C37_OutcomeIndependentOfOrder ==
    /\ Len(DeliveredToCmd) <= elders_len
    /\ ~(DeliveredAcks >= Supermajority /\ DeliveredErrors >= Supermajority)
    /\ (cmd_pc = "done" /\ cmd_ret.tag = "Ok") => ~ErrorCmdInAnotherOrder

\* C5: the ack-wait loop never starts more than max(200, cmd_ack_wait_ms/50)
\* iterations; when it has made that many attempts without counting
\* floor(2n/3)+1 acks or errors, send_cmd has stopped waiting and returned
\* Ok, and it does not give up on the acks before that.
C5_AckWaitBounded ==
    /\ cmd_polls <= AckWaitCap
    /\ attempts <= AckWaitCap
    /\ cmd_pc = "poll" => attempts < AckWaitCap
    /\ attempts >= AckWaitCap => (cmd_pc = "done" /\ cmd_ret = CmdOk)
    /\ (/\ cmd_pc = "done"
        /\ cmd_ret.tag = "Ok"
        /\ received_ack < Supermajority) => attempts = AckWaitCap

C5_Witness ==
    /\ cmd_pc = "done"
    /\ cmd_ret = CmdOk
    /\ cmd_ack_wait = 10050
    /\ attempts = 201
    /\ elders_len = 4
    /\ received_ack = 2
    /\ received_err = 2

-----------------------------------------------------------------------------
\* Properties of send_query, stated for SpecQuery and SpecQueries

\* A valid response: not an error and, for GetChunk, the requested chunk.
Valid(r) == r.ok /\ (r.kind = "GetChunk" => r.val = RequestedName)

\* GetChunk(Ok(c)) with c.name different from the requested address.
MismatchingChunk(r) == r.kind = "GetChunk" /\ r.ok /\ r.val /= RequestedName

\* An error response of the query's own variant.
IsError(r) == r /= NoResponse /\ ~r.ok

\* Everything the listener put on the channel of call q, in arrival order.
Delivered(q) == q_consumed[q] \o q_chan[q]

\* The last response of the sequence that satisfies IsError.
LastError(seq) ==
    seq[CHOOSE i \in 1..Len(seq) :
            IsError(seq[i]) /\ \A j \in (i + 1)..Len(seq) : ~IsError(seq[j])]

C7_ValidResponseWins ==
    \A q \in calls :
        (/\ q_pc[q] = "done"
         /\ Len(Delivered(q)) <= q_elders_len[q]
         /\ \E i \in 1..Len(Delivered(q)) : Valid(Delivered(q)[i]))
        => /\ q_ret[q].tag = "Ok"
           /\ Valid(q_ret[q].response)

\* C8 (as claimed): when send_query returns with discarded_responses equal to
\* the number of contacted elders, having saved at least one error response,
\* it returns the most recently saved error response and not NoResponse.
C8_LastSavedErrorReturned ==
    \A q \in calls :
        (/\ q_pc[q] = "done"
         /\ q_elders_len[q] > 0
         /\ discarded_responses[q] = q_elders_len[q]
         /\ \E i \in 1..Len(q_consumed[q]) : IsError(q_consumed[q][i]))
        => /\ q_ret[q].tag = "Ok"
           /\ q_ret[q].response = LastError(q_consumed[q])

\* C9: the receive loop takes nothing off the channel after the first valid
\* response it received, and that response, the first valid one in arrival
\* order, is the one the loop breaks with and send_query returns.
C9_FirstValidReturned ==
    \A q \in calls :
        LET seen == q_consumed[q]
            n == Len(seen)
        IN  /\ \A i \in 1..(n - 1) : ~Valid(seen[i])
            /\ \A i \in 1..n :
                  Valid(seen[i]) =>
                      /\ \A j \in 1..(i - 1) : ~Valid(Delivered(q)[j])
                      /\ q_pc[q] \in {"remove", "done"}
                      /\ response[q] = seen[i]
                      /\ q_pc[q] = "done" => q_ret[q] = QueryResult("Ok", seen[i])

C9_Witness ==
    /\ q_pc[1] = "done"
    /\ q_elders_len[1] = 3
    /\ Len(q_consumed[1]) = 2
    /\ ~Valid(q_consumed[1][1])
    /\ Valid(q_consumed[1][2])
    /\ Len(q_chan[1]) = 1
    /\ Valid(q_chan[1][1])
    /\ q_ret[1] = QueryResult("Ok", q_consumed[1][2])

\* The msg_ids listening under the operation id of call q.
ListenersFor(q) ==
    LET op == QueryOpId(q_query[q])
    IN  IF op \in DOMAIN pending_queries
        THEN {pending_queries[op][i] : i \in 1..Len(pending_queries[op])}
        ELSE {}

Registered(q) == q_pc[q] \in {"recv", "check", "remove"}

\* C10 (as claimed): once two concurrent calls of the same query have both
\* registered, pending_queries[operation_id] holds exactly their two
\* listeners, and a call that has returned leaves the listener of the other,
\* still running, call registered.
C10_TwoListenersCoexist ==
    /\ (\A q \in calls : Registered(q)) =>
          \A q \in calls :
              /\ ListenersFor(q) = {MsgIdOf(c) : c \in calls}
              /\ Len(pending_queries[QueryOpId(q_query[q])]) = 2
    /\ \A q \in calls : \A c \in calls \ {q} :
          (q_pc[q] = "done" /\ Registered(c)) => MsgIdOf(c) \in ListenersFor(c)

\* C11 (as claimed): whenever send_query has returned, with a valid
\* response, an error response or NoResponse, the listener (msg_id, sender)
\* the call registered is no longer in pending_queries.
C11_ListenerRemovedOnReturn ==
    \A q \in calls : q_pc[q] = "done" => MsgIdOf(q) \notin ListenersFor(q)

\* C12 (as claimed): pending_queries never maps an operation id to an empty
\* list of listeners, and it is empty once every send_query call has returned.
C12_NoEmptyEntry ==
    /\ \A op \in DOMAIN pending_queries : pending_queries[op] /= <<>>
    /\ (\A q \in calls : q_pc[q] = "done") => DOMAIN pending_queries = {}

\* C13: a receive that finds the channel of the call closed (empty, its
\* sender dropped) ends the loop with None, and a call that ended its loop
\* with None returns Err(NoResponse(elders)) carrying the elders it
\* contacted; while the channel is empty and its sender alive, no step makes
\* the call leave the receive or return.
C13_ClosedChannelNoResponse ==
    /\ [](\A q \in calls :
            (q_pc[q] = "done" /\ response[q] = NoResponse)
            => q_ret[q] = NoResponseError(q_elders_len[q]))
    /\ [][\A q \in calls :
            /\ (/\ q_pc[q] = "recv"
                /\ q_chan[q] = <<>>
                /\ SenderAlive(q))
               => (q_pc'[q] = "recv" /\ q_ret'[q] = q_ret[q])
            /\ (/\ q_pc[q] = "recv"
                /\ q_chan[q] = <<>>
                /\ ~SenderAlive(q)
                /\ q_pc'[q] /= "recv")
               => (q_pc'[q] = "remove" /\ response'[q] = NoResponse)]_vars

\* A call whose sender was dropped before anything was delivered returned
\* NoResponse with its one contacted elder.
C13_Witness ==
    \E q \in calls :
        /\ q_pc[q] = "done"
        /\ ~SenderAlive(q)
        /\ q_consumed[q] = <<>>
        /\ q_elders_len[q] = 1
        /\ q_ret[q] = NoResponseError(1)

\* C14: send_query returns either Ok with the last response it took off its
\* listener channel or Err(NoResponse), never an error of its fan-out; the
\* steps of the background send_msg, whether its tasks succeed or fail and
\* whatever send_msg returns, change neither the position, the locals nor the
\* result of the call.
C14_NoTransportError ==
    /\ [](\A q \in calls :
            /\ q_ret[q].tag \in {"Running", "Ok", "NoResponse"}
            /\ q_pc[q] = "done" =>
                  \/ q_ret[q].tag = "NoResponse"
                  \/ /\ q_ret[q].tag = "Ok"
                     /\ q_consumed[q] /= <<>>
                     /\ q_ret[q].response = q_consumed[q][Len(q_consumed[q])])
    /\ [][\A q \in calls :
            (\/ bg_tasks_done'[q] /= bg_tasks_done[q]
             \/ bg_send_res'[q] /= bg_send_res[q])
            => /\ q_pc'[q] = q_pc[q]
               /\ q_ret'[q] = q_ret[q]
               /\ response'[q] = response[q]
               /\ error_response'[q] = error_response[q]
               /\ discarded_responses'[q] = discarded_responses[q]
               /\ q_chan'[q] = q_chan[q]]_vars

\* The background send_msg failed (2 of 3 sends failed) and the call still
\* returned the valid response of the one elder reached.
C14_Witness ==
    /\ q_pc[1] = "done"
    /\ q_elders_len[1] = 3
    /\ bg_successful_sends[1] = 1
    /\ bg_send_res[1] = "Err"
    /\ q_ret[1].tag = "Ok"
    /\ Valid(q_ret[1].response)

-----------------------------------------------------------------------------
\* Properties of send_msg, stated for SpecSendMsg.

\* The recipients whose send ended Ok, and those whose send ended with an
\* error that the loop over the results records.
SucceededPeers == {p \in Recipients : ~sm_panicked[p] /\ TaskResult(p) = "Ok"}

ErrorPeers == {p \in Recipients : ~sm_panicked[p] /\ TaskResult(p) /= "Ok"}

C16_BoundedRetries ==
    \A p \in Recipients :
        LET n == Len(sm_sent[p])
        IN  /\ n <= 4
            /\ sm_retries[p] <= 3
            /\ sm_retries[p] = IF n = 0 THEN 0 ELSE n - 1
            /\ \A i \in 1..(n - 1) : sm_sent[p][i] /= "Ok"
            /\ (sm_pc = "done" /\ p \in ErrorPeers) =>
                  /\ n = 4
                  /\ \A i \in 1..n : sm_sent[p][i] /= "Ok"

\* One recipient succeeded on its third retry, the other failed four times.
C16_Witness ==
    /\ sm_pc = "done"
    /\ sm_nodes_len = 2
    /\ Len(sm_sent[1]) = 4
    /\ sm_sent[1][4] = "Ok"
    /\ sm_retries[1] = 3
    /\ Len(sm_sent[2]) = 4
    /\ 2 \in ErrorPeers

-----------------------------------------------------------------------------
\* Properties of get_cmd_elders and get_query_elders, stated for SpecElders.

\* The elements of a sequence.
Range(v) == {v[i] : i \in 1..Len(v)}

\* The prefix of the SAP closest to the destination, when the tree holds one.
ClosestPrefix ==
    IF \E p \in DOMAIN el_network : Matches(p, el_dst)
    THEN CHOOSE p \in DOMAIN el_network : Matches(p, el_dst)
    ELSE CHOOSE p \in DOMAIN el_network : TRUE

\* C17: get_cmd_elders returns NoNetworkKnowledge(dst) when the SectionTree
\* holds no SAP; otherwise, n being the elder count of the closest SAP, it
\* returns that SAP's section key with all n elders when
\* n >= floor(2n/3) + 1, and InsufficientElderKnowledge when not.
C17_CmdEldersComplete ==
    (el_pc = "done" /\ el_call = "cmd") =>
        IF DOMAIN el_network = {}
        THEN /\ el_ret.tag = "NoNetworkKnowledge"
             /\ el_ret.dst = el_dst
        ELSE LET p == ClosestPrefix
                 n == el_network[p]
             IN  IF n >= (2 * n) \div 3 + 1
                 THEN /\ el_ret.tag = "Ok"
                      /\ el_ret.section_pk = <<"pk", p>>
                      /\ Len(el_ret.elders) = n
                      /\ Range(el_ret.elders) = {<<p, i>> : i \in 1..n}
                 ELSE /\ el_ret.tag = "InsufficientElderKnowledge"
                      /\ el_ret.connections = n
                      /\ el_ret.section_pk = <<"pk", p>>

\* The tree holds two sections; the destination's section has 4 elders and
\* all 4 are returned.
C17_Witness ==
    /\ el_pc = "done"
    /\ el_call = "cmd"
    /\ DOMAIN el_network = {<<0>>, <<1>>}
    /\ el_dst = <<1>>
    /\ el_network[<<1>>] = 4
    /\ el_network[<<0>>] = 2
    /\ el_ret.tag = "Ok"
    /\ Len(el_ret.elders) = 4

-----------------------------------------------------------------------------
\* Properties of make_contact_with_nodes, stated for SpecContact.

\* ceil(k / 3)
CeilThird(k) == (k + 2) \div 3

\* C19 (as claimed): for every size k of the seed list, k = 0 included,
\* make_contact_with_nodes hands at most ceil(k/3) + 1 batches to
\* send_msg_in_bg, the initial one counted.
C19_BatchesBounded == Len(mc_batches) <= CeilThird(mc_nodes_len) + 1

\* C19 (amended): at most ceil(k/3) + 1 batches for a seed list of size
\* k >= 1, and at most 2 batches, both empty, for an empty seed list.
C19_BatchesBoundedNonEmpty ==
    /\ mc_nodes_len >= 1 => Len(mc_batches) <= CeilThird(mc_nodes_len) + 1
    /\ mc_nodes_len = 0 =>
          /\ Len(mc_batches) <= 2
          /\ \A i \in 1..Len(mc_batches) : mc_batches[i] = <<0, 0>>

\* NetworkContact is reported for 6 seeds after ceil(6/3) + 1 = 3 batches.
C19_Witness ==
    /\ mc_pc = "done"
    /\ mc_ret = ContactResult("NetworkContact", 6)
    /\ mc_batches = <<<<0, 3>>, <<3, 6>>, <<6, 6>>>>

\* C20 (as claimed): NetworkContact(seeds) is reported only once the
\* backoff's max_elapsed_time has been reached, that is after next_backoff
\* has yielded no further wait, and it carries the full seed list.
C20_FailsOnlyWhenBackoffExpired ==
    mc_ret.tag = "NetworkContact" =>
        /\ mc_expired
        /\ mc_ret.nodes = mc_nodes_len

\* C20 (amended): once the batch that runs to the end of the seed list has
\* been sent (tried_every_contact), no batch is sent again, and the pass of
\* the loop that follows its wait, finding no SAP, reports
\* NetworkContact(seeds) with the full seed list, whether or not the
\* backoff's max_elapsed_time has been reached; NetworkContact is reported
\* in no other case.
C20_FailsAfterTailBatch ==
    /\ [](mc_ret.tag = "NetworkContact" =>
            /\ tried_every_contact
            /\ ~known_sap
            /\ mc_ret.nodes = mc_nodes_len
            /\ mc_batches[Len(mc_batches)][2] = mc_nodes_len)
    /\ [][/\ tried_every_contact => mc_batches' = mc_batches
          /\ (/\ mc_pc = "loop"
              /\ tried_every_contact
              /\ ~known_sap
              /\ mc_pc' /= mc_pc \/ knowledge_checks' /= knowledge_checks)
             => mc_ret' = ContactResult("NetworkContact", mc_nodes_len)]_vars

\* NetworkContact reported for 4 seeds some three seconds after the backoff
\* was reset, long before its max_elapsed_time.
C20_Witness ==
    /\ mc_pc = "done"
    /\ mc_ret = ContactResult("NetworkContact", 4)
    /\ mc_batches = <<<<0, 3>>, <<3, 4>>>>
    /\ ~mc_expired
    /\ mc_elapsed < 5000

\* The window of up to 3 seeds that follows the batch b in list order.
NextWindow(b) ==
    <<b[2], Min(b[2] + NODES_TO_CONTACT_PER_STARTUP_BATCH, mc_nodes_len)>>

\* The first batch is the first 3 seeds (all of them when there are fewer).
FirstBatchIsFirstThree ==
    mc_batches /= <<>> =>
        mc_batches[1] =
            <<0, Min(NODES_TO_CONTACT_PER_STARTUP_BATCH, mc_nodes_len)>>

\* Once a check found a SAP the call sends nothing more and ends with Ok;
\* Ok is returned for no other reason.
OkOnKnownSap ==
    /\ [](mc_ret.tag = "Ok" => known_sap)
    /\ [][known_sap /\ mc_pc = "loop" =>
              /\ mc_batches' = mc_batches
              /\ mc_pc' \in {"loop", "done"}
              /\ mc_pc' = "done" => mc_ret'.tag = "Ok"]_vars

\* A batch after the first goes out only on a pass that follows two idle
\* knowledge checks.
TwoIdleChecksFirst ==
    [][(mc_batches /= <<>> /\ mc_batches' /= mc_batches) =>
           knowledge_checks >= 2]_vars

\* C21: make_contact_with_nodes first sends to the first 3 seeds; it
\* returns Ok as soon as a check finds a SAP, without a further batch;
\* otherwise no further batch goes out before two idle knowledge checks,
\* and each further batch is the next consecutive window of up to 3 seeds.
C21_ConsecutiveWindows ==
    /\ [](FirstBatchIsFirstThree)
    /\ OkOnKnownSap
    /\ TwoIdleChecksFirst
    /\ [](\A i \in 2..Len(mc_batches) :
              mc_batches[i] = NextWindow(mc_batches[i - 1]))

\* C21, amended: as above, except that with fewer than 3 seeds the further
\* batch is the whole list once more (start_pos falls back to
\* last_start_pos).
C21_WindowsOrWholeShortList ==
    /\ [](FirstBatchIsFirstThree)
    /\ OkOnKnownSap
    /\ TwoIdleChecksFirst
    /\ [](\A i \in 2..Len(mc_batches) :
              mc_batches[i] =
                  IF mc_nodes_len < NODES_TO_CONTACT_PER_STARTUP_BATCH
                  THEN <<0, mc_nodes_len>>
                  ELSE NextWindow(mc_batches[i - 1]))

\* Six seeds: the second window went out after two idle checks, the SAP
\* arrived and the call returned Ok.
C21_Witness ==
    /\ mc_pc = "done"
    /\ mc_ret.tag = "Ok"
    /\ mc_nodes_len = 6
    /\ mc_batches = <<<<0, 3>>, <<3, 6>>>>
    /\ knowledge_checks = 3

\* The seed at index s of the list was handed to send_msg_in_bg in some
\* batch.
SeedContacted(s) ==
    \E i \in 1..Len(mc_batches) :
        mc_batches[i][1] <= s /\ s < mc_batches[i][2]

\* C38: whenever make_contact_with_nodes reports NetworkContact, every
\* seed of the list has been in at least one batch sent before, whatever
\* the length of the seed list.
C38_EverySeedTriedBeforeGivingUp ==
    mc_ret.tag = "NetworkContact" =>
        \A s \in 0..(mc_nodes_len - 1) : SeedContacted(s)

\* Five seeds: the first three, then the last two, then NetworkContact.
C38_Witness ==
    /\ mc_pc = "done"
    /\ mc_ret = ContactResult("NetworkContact", 5)
    /\ mc_batches = <<<<0, 3>>, <<3, 5>>>>

\* C39: every batch is a range inside the seed list, start <= end <=
\* nodes.len(), and last_start_pos stays inside it too, whatever the
\* length of the seed list: slicing nodes for the next batch never fails.
C39_BatchWindowInsideSeedList ==
    /\ last_start_pos <= mc_nodes_len
    /\ \A i \in 1..Len(mc_batches) :
          /\ 0 <= mc_batches[i][1]
          /\ mc_batches[i][1] <= mc_batches[i][2]
          /\ mc_batches[i][2] <= mc_nodes_len

\* Two seeds: 1 * 3 runs over the list, start_pos falls back to
\* last_start_pos = 0 and the batch is nodes[0..] once more.
C39_Witness ==
    /\ mc_nodes_len = 2
    /\ knowledge_checks = 3
    /\ last_start_pos = 0
    /\ mc_batches = <<<<0, 2>>, <<0, 2>>>>

\* A send of the fan-out of call q failed: that elder did not get the
\* query and will deliver no response.
SomeElderNotReached(q) == bg_tasks_done[q] > bg_successful_sends[q]

\* C36: send_query eventually returns when its elder list is not empty
\* and every elder of it delivers one response to the listener; it has no
\* timeout, so it returns on responses (or on the channel closing) only.
C36_SendQueryReturns ==
    (q_elders_len[1] > 0 /\ q_pc[1] = "recv") ~>
        (q_pc[1] = "done" \/ SomeElderNotReached(1))

\* The call returned after every one of its three elders had answered and
\* all the answers were discarded.
C36_Witness ==
    /\ q_pc[1] = "done"
    /\ q_elders_len[1] = 3
    /\ q_answered[1] = 3
    /\ discarded_responses[1] = 3

-----------------------------------------------------------------------------
\* Properties of the DKG timers, stated for SpecTimers

TimerStarts(t) == tm_pc[t] = "idle" /\ tm_pc'[t] /= "idle"

\* C34: the cancel flag is latched: it is false until the one write, which
\* sets it to true, and it never returns to false; a ScheduleDkgTimeout
\* processed while the flag is true returns no cmd at once, without
\* sleeping.
C34_CancelFlagIsLatched ==
    /\ []((\A t \in Tokens : tm_at_drop[t] = "none") => ~cancel_value)
    /\ [][cancel_value => cancel_value']_vars
    /\ [][\A t \in Tokens :
            (TimerStarts(t) /\ cancel_value) =>
                /\ tm_pc'[t] = "done"
                /\ tm_ret'[t] = TimerResult("None", 0)
                /\ ~tm_elapsed'[t]]_vars

\* A timer scheduled after the flag was set has returned no cmd.
C34_Witness ==
    /\ cancel_value
    /\ \E t \in Tokens :
          /\ tm_at_drop[t] = "unscheduled"
          /\ tm_pc[t] = "done"
          /\ tm_ret[t] = TimerResult("None", 0)

\* C35: a ScheduleDkgTimeout{duration, token} that is being processed
\* eventually returns HandleDkgTimeout(token), its one follow-up cmd,
\* unless the cancel flag is set; and HandleDkgTimeout is returned with the
\* token of the call and only once the sleep has completed.
C35_TimeoutFiresAfterSleep ==
    /\ [](\A t \in Tokens :
            tm_ret[t].tag = "HandleDkgTimeout" =>
                tm_ret[t].token = t /\ tm_elapsed[t])
    /\ \A t \in Tokens :
          (tm_pc[t] = "select") ~>
              (tm_ret[t] = TimerResult("HandleDkgTimeout", t) \/ cancel_value)

\* All timers have fired and the flag was never set.
C35_Witness ==
    /\ ~cancel_value
    /\ \A t \in Tokens : tm_ret[t] = TimerResult("HandleDkgTimeout", t)

-----------------------------------------------------------------------------
\* Properties of Dispatcher::process_cmd

\* The peers comm.send was called for by handler h, and those for which it
\* returned FailedSend.
SentTo(h) == {comm_sent[h][i].peer : i \in 1..Len(comm_sent[h])}

FailedTo(h) ==
    {comm_sent[h][i].peer :
        i \in {j \in 1..Len(comm_sent[h]) :
                  comm_sent[h][j].result = "FailedSend"}}

\* The follow-up cmds handler h returned, as a set.
FollowUps(h) == {h_ret[h].cmds[i] : i \in 1..Len(h_ret[h].cmds)}

\* C23: SendMsg returns exactly one HandlePeerFailedSend(peer) per
\* recipient whose send failed with FailedSend and no other cmd; a
\* recipient without a resolvable Dst gets neither a send nor a follow-up
\* cmd and does not make the handler fail.  (SpecSendMsgCmd)
C23_OneFollowUpPerFailedSend ==
    /\ [](h_ret[1].tag = "Ok" =>
            /\ FollowUps(1) =
                  {HandlePeerFailedSend(PeerOf(p)) : p \in FailedTo(1)}
            /\ Len(h_ret[1].cmds) = Cardinality(FailedTo(1))
            /\ Len(comm_sent[1]) = Cardinality(SentTo(1))
            /\ SentTo(1) = h_cmd[1].peers \cap nd_dst)
    /\ [](SentTo(1) \subseteq nd_dst)
    /\ [][h_pc[1] = "send" => h_ret'[1].tag /= "Err"]_vars

\* Of three recipients one has no route, one is sent to and one fails.
C23_Witness ==
    /\ h_pc[1] = "done"
    /\ h_cmd[1] = SendMsg({1, 2, 3})
    /\ nd_dst = {1, 2}
    /\ comm_sent[1] = <<[peer |-> 1, result |-> "Ok"],
                        [peer |-> 2, result |-> "FailedSend"]>>
    /\ h_ret[1] = HandlerResult("Ok", <<HandlePeerFailedSend(PeerOf(2))>>)

\* Handler h returns from its HandlePeerFailedSend in this step.
FailedSendHandled(h) ==
    /\ h_cmd[h].kind = "HandlePeerFailedSend"
    /\ h_pc[h] = "writing"
    /\ h_pc'[h] = "done"

Enqueued(h) == {h_cmd[h].data[i] : i \in 1..h_i[h]}

\* C25: after EnqueueDataForReplication {recipient, data_batch} the queue
\* maps every item of the batch to a set with the recipient and every
\* recipient queued for it before, other entries are as they were, a
\* repeated (data, recipient) counts once and no follow-up cmd is returned:
\* the queue is at any time the union of the pairs enqueued so far.
\* (SpecReplication)
C25_QueueIsUnionOfEnqueued ==
    /\ DOMAIN pending_data_to_replicate_to_peers =
          UNION {Enqueued(h) : h \in Handlers}
    /\ \A d \in DOMAIN pending_data_to_replicate_to_peers :
          pending_data_to_replicate_to_peers[d] =
              {h_cmd[h].peer : h \in {g \in Handlers : d \in Enqueued(g)}}
    /\ \A h \in Handlers :
          h_pc[h] = "done" =>
              /\ h_i[h] = Len(h_cmd[h].data)
              /\ h_ret[h] = HandlerResult("Ok", <<>>)

\* d1 was enqueued twice for peer 1 and once for peer 2, d2 for peer 2.
C25_Witness ==
    /\ h_pc = [h \in Handlers |-> "done"]
    /\ h_cmd[1] = EnqueueDataForReplication(PeerOf(1), <<"d1", "d1">>)
    /\ h_cmd[2] = EnqueueDataForReplication(PeerOf(2), <<"d1", "d2">>)
    /\ DOMAIN pending_data_to_replicate_to_peers = {"d1", "d2"}
    /\ pending_data_to_replicate_to_peers["d1"] = {PeerOf(1), PeerOf(2)}
    /\ pending_data_to_replicate_to_peers["d2"] = {PeerOf(2)}

\* C26: the recipients of every Offline proposal of
\* ProposeVoteNodesOffline(names) are exactly the section elders whose name
\* is not in names, and a proposal is built only for names that are known
\* section members.  (SpecOffline)
C26_ProposalsExcludeSubjects ==
    \A h \in Handlers :
        (h_cmd[h].kind = "ProposeVoteNodesOffline" /\ h_pc[h] = "done") =>
            \A c \in FollowUps(h) :
                /\ c.peers = nd_elders \ h_cmd[h].peers
                /\ c.target \in h_cmd[h].peers \cap nd_members

\* Members and elders are 1, 2 and 3; 3 is proposed offline: the elder
\* 3 is proposed to the elders 1 and 2 only.
C26_Witness ==
    /\ nd_members = {1, 2, 3}
    /\ nd_elders = {1, 2, 3}
    /\ h_pc[1] = "done"
    /\ h_cmd[1] = ProposeVoteNodesOffline({3})
    /\ h_ret[1] = HandlerResult("Ok", <<OfflineProposal({1, 2}, 3)>>)

\* C27: AddToPendingQueries {operation_id, origin, target_adult} leaves
\* pending_data_queries[(operation_id, target_adult)] containing origin
\* together with every unexpired origin registered before under that key.
\* (SpecPendingQueries)
C27_OriginsAccumulate ==
    [][\A h \in Handlers :
          (/\ h_cmd[h].kind = "AddToPendingQueries"
           /\ h_pc[h] = "writing"
           /\ h_pc'[h] = "done") =>
              LET key == <<QueryOperationId, h_cmd[h].target>>
              IN  /\ key \in DOMAIN pending_data_queries'
                  /\ h_cmd[h].peer \in pending_data_queries'[key]
                  /\ (key \in DOMAIN pending_data_queries \ expired_queries
                        => pending_data_queries[key] \subseteq
                               pending_data_queries'[key])]_vars

\* Handler h has made a part of the changes of its Cmd and not yet all.
MidMutation(h) ==
    /\ h_cmd[h].kind = "EnqueueDataForReplication"
    /\ 0 < h_i[h]
    /\ h_i[h] < Len(h_cmd[h].data)

\* The handlers of the read variants never hold the write guard and their
\* steps leave Node as it is.
ReadersLeaveNode ==
    /\ [](\A h \in Handlers :
              h_cmd[h].kind \in ReadKinds => node_lock.writer /= h)
    /\ [][\A h \in Handlers :
              (h_cmd[h].kind \in ReadKinds /\ h_pc'[h] /= h_pc[h]) =>
                  nodeState' = nodeState]_vars

\* Node changes only in a step of the handler that holds the write guard,
\* and nobody else holds a guard then.
WritersAreExclusive ==
    /\ [](node_lock.writer /= 0 => node_lock.readers = {})
    /\ [][nodeState' /= nodeState =>
              \E h \in Handlers :
                  node_lock.writer = h /\ h_pc'[h] /= h_pc[h]]_vars

\* C28: the handlers of CleanupPeerLinks, SendMsg, ValidateMsg,
\* HandleValidServiceMsg and HandleDkgTimeout take only read access and
\* leave Node unchanged; a handler that changes Node holds the write guard
\* while it does, so no other handler observes (holds a guard on) Node in
\* the middle of a handler's mutation.  (SpecDispatcher)
C28_NoHalfDoneMutationObserved ==
    /\ ReadersLeaveNode
    /\ WritersAreExclusive
    /\ [](\A h, g \in Handlers :
              (g /= h /\ MidMutation(h)) => ~HoldsLock(g))

\* C28, amended: as above, but the mutation that is never observed half
\* done is the one made under one write guard: every handler other than
\* that of EnqueueDataForReplication changes Node in its last step only,
\* and that one enqueues its batch item by item, each under its own guard.
C28_EachGuardedChangeIsAtomic ==
    /\ ReadersLeaveNode
    /\ WritersAreExclusive
    /\ [][\A h \in Handlers :
              (/\ nodeState' /= nodeState
               /\ h_pc'[h] /= h_pc[h]
               /\ h_cmd[h].kind /= "EnqueueDataForReplication") =>
                  h_pc'[h] = "done"]_vars

\* Handler 1 has enqueued the first item of its batch and waits for the
\* lock again while handler 2 reads Node for a SendMsg.
C28_Witness ==
    /\ h_cmd[1] = EnqueueDataForReplication(PeerOf(1), <<"d1", "d2">>)
    /\ h_i[1] = 1
    /\ h_pc[1] = "write"
    /\ DOMAIN pending_data_to_replicate_to_peers = {"d1"}
    /\ h_cmd[2] = SendMsg({1})
    /\ h_pc[2] = "reading"
    /\ node_lock = Lock(0, {2})

\* C29: when a handler returns an error only its Cmd is abandoned: the
\* failed handler holds no guard of the Node lock, the cancel flag is as it
\* was, and a Cmd whose processing has begun is processed to its end.
\* (SpecDispatcherFair)
C29_ErrorLeavesDispatcherUsable ==
    /\ [](\A h \in Handlers : h_ret[h].tag = "Err" => ~HoldsLock(h))
    /\ [][\A h \in Handlers :
              (h_ret'[h].tag = "Err" /\ h_ret[h].tag /= "Err") =>
                  /\ cancel_value' = cancel_value
                  /\ cancel_version' = cancel_version]_vars
    /\ ((\E h, g \in Handlers :
             h_ret[h].tag = "Err" /\ h_pc[g] \notin {"idle", "done"})
          ~> (\A g \in Handlers :
                 h_pc[g] = "idle" \/ h_ret[g].tag /= "Running"))

\* The ProposeVoteNodesOffline of handler 1 failed under the write guard;
\* the HandlePeerFailedSend of handler 2 took the guard and recorded its
\* issue.
C29_Witness ==
    /\ h_cmd[1] = ProposeVoteNodesOffline({1})
    /\ h_ret[1] = HandlerResult("Err", <<>>)
    /\ h_cmd[2] = HandlePeerFailedSend(PeerOf(1))
    /\ h_ret[2] = HandlerResult("Ok", <<>>)
    /\ nd_issues[1] = 1
    /\ node_lock = Unlocked
    /\ ~cancel_value

(***************************************************************************)
(* Properties of the locks around the sends                                *)
(***************************************************************************)

\* The client call `who` holds no guard of self.network.
NetworkReleased(who) == who \notin network_readers

\* C30: no lock on shared knowledge is held across a send.  An elder
\* lookup of send_cmd / send_query has released self.network when it
\* returns the elders to send to; make_contact_with_nodes holds no guard of
\* self.network while it sleeps, when it sends a batch and after it
\* returned; a SendMsg handler at comm.send and a CleanupPeerLinks handler
\* at comm.cleanup_peers hold no guard of the Node lock.
C30_NoLockHeldAcrossSend ==
    /\ [](/\ el_pc = "done" => NetworkReleased("elders")
          /\ mc_pc \in {"sleep", "done"} => NetworkReleased("contact")
          /\ \A h \in Handlers :
                h_pc[h] \in {"send", "cleanup"} => ~HoldsLock(h))
    /\ [][mc_batches' /= mc_batches => network_readers' = {}]_vars

\* Handler 1 is about to send wire messages and holds no guard while
\* handler 2 reads the Node under the read guard.
C30_Witness ==
    /\ h_pc[1] = "send"
    /\ h_peer_msgs[1] /= <<>>
    /\ ~HoldsLock(1)
    /\ h_pc[2] = "reading"
    /\ node_lock.readers = {2}

(***************************************************************************)
(* Properties of ChunkStorage                                              *)
(***************************************************************************)

\* C31 (as claimed): ChunkStorage::store of data whose address is already
\* present in the local store overwrites it: unless a file operation
\* fails, the call succeeds and the store holds the chunk, which a
\* following get_chunk returns.
C31_StoreOfPresentOverwrites ==
    (cs_ret.op = "store" /\ cs_existed /\ cs_ret.result /= "Io") =>
        /\ cs_ret.result = "Ok"
        /\ data_file_exists(cs_files, cs_ret.address)

(***************************************************************************)
(* Properties of ReplicaManager                                            *)
(***************************************************************************)

\* A call is made in this step.
ReplicaCallMade == rm_calls' /= rm_calls

ReplicaUntouched == rm_store' = rm_store /\ rm_replica' = rm_replica

\* C32: while a ReplicaManager is initiating, drop_accounts, validate,
\* register and receive_propagated return InvalidOperation and leave the
\* transfer store and the replica as they are; initiate is refused with
\* InvalidOperation, and changes nothing, once the manager is no longer
\* initiating.
C32_CmdsRefusedWhileInitiating ==
    /\ [][(/\ ReplicaCallMade
           /\ rm_initiating
           /\ rm_ret'.op \in ReplicaCmds \cup {"drop_accounts"})
          => (rm_ret'.result = "InvalidOperation" /\ ReplicaUntouched)]_vars
    /\ [][(ReplicaCallMade /\ ~rm_initiating /\ rm_ret'.op = "initiate")
          => (rm_ret'.result = "InvalidOperation" /\ ReplicaUntouched)]_vars

\* A validate was refused by a manager that is initiating over a store
\* that holds an event.
C32_Witness ==
    /\ rm_ret.op = "validate"
    /\ rm_ret.result = "InvalidOperation"
    /\ rm_ret.was_initiating
    /\ rm_store /= <<>>

\* C40 (as claimed): after an initiate that returned Ok, with an empty
\* event list as well as with a non-empty one, the manager is no longer
\* initiating, so a second initiate returns InvalidOperation.
C40_InitiateOkEndsInitiating ==
    /\ [](rm_inited => ~rm_initiating)
    /\ [][(ReplicaCallMade /\ rm_inited /\ rm_ret'.op = "initiate")
          => rm_ret'.result = "InvalidOperation"]_vars

(***************************************************************************)
(* Properties of EldersInfo                                                *)
(***************************************************************************)

\* The proofs of the ProofSet that elders of the section signed.
ElderProofs == ei_proofs \cap ei_elders

\* C33: for every elder_size n up to the bound,
\* quorum_count(n) * QUORUM_DENOMINATOR > n * QUORUM_NUMERATOR, and
\* is_quorum(proofs) is true exactly when the proofs signed by elders of
\* the section, those of others not counted, number at least
\* quorum_count(num_elders).
C33_QuorumIsMoreThanTwoThirds ==
    /\ \A n \in 0..MaxIds :
          quorum_count(n) * QUORUM_DENOMINATOR > n * QUORUM_NUMERATOR
    /\ ei_ret.called =>
          (ei_ret.value <=>
              Cardinality(ElderProofs) >= quorum_count(Cardinality(ei_elders)))

\* is_quorum was false for proofs that would have been enough in number
\* had those of the ids that are no elders counted.
C33_Witness ==
    /\ ei_ret.called
    /\ ~ei_ret.value
    /\ ei_elders /= {}
    /\ Cardinality(ei_proofs) >= quorum_count(Cardinality(ei_elders))

====
